---- MODULE Spec2Model ----
(***************************************************************************)
(* Model of subtitle-checker.js: the Semaphore, the SubtitleChecker run    *)
(* (init / loadState / processVTTFiles / processFilesInParallel /          *)
(* checkVTTFile / applyCorrections / saveState) and the string operations  *)
(* the correction loop is built on.                                        *)
(*                                                                         *)
(* Node runs the program on one thread: the code between two awaits is one *)
(* atomic step, and the steps of different file pipelines interleave at    *)
(* the awaits.  A string is a sequence of one-character strings; a path is *)
(* a sequence of path tokens.                                              *)
(***************************************************************************)
EXTENDS Integers, Sequences, FiniteSets, TLC

(***************************************************************************)
(* Bounds of the model.                                                    *)
(***************************************************************************)
MaxFiles == 2          \* number of .vtt files in the directory is 0..MaxFiles
MaxLimit == 2          \* MAX_CONCURRENCY ranges over 1..MaxLimit
MaxFaults == 1         \* number of I/O faults injected in one run
MaxLen == 3            \* length of the contents given to the correction loop
MaxCorrections == 2    \* length of the correction lists given to the loop
MaxCallers == 4        \* number of callers of the Semaphore used on its own
MaxPath == 4           \* number of parts of the paths given to backupPath
MaxSetting == 2        \* length of the MAX_CONCURRENCY settings

(***************************************************************************)
(* Strings.                                                                *)
(***************************************************************************)
\* A string is the sequence of its characters; a path is the sequence of
\* its parts.  (The helpers below are functions of strings: their
\* arguments are values, evaluated once.)
Str == Seq(STRING)

\* String.prototype.indexOf, 1-based; 0 when the pattern does not occur.
\* The empty pattern occurs at the start of every string.
IndexOf[s \in Str, pat \in Str] ==
    LET cands == {i \in 1..(Len(s) - Len(pat) + 1) :
                     SubSeq(s, i, i + Len(pat) - 1) = pat}
    IN IF cands = {} THEN 0 ELSE CHOOSE i \in cands : \A j \in cands : i <= j

\* String.prototype.includes
Includes(s, pat) == IndexOf[s, pat] # 0

\* The backquote character (written by name: the character itself cannot
\* stand in a TLA+ string).
BackQuote == "backquote"

\* GetSubstitution of String.prototype.replace for a string pattern (no
\* capture groups): in the replacement text "$$" stands for "$", "$&" for
\* the matched text, "$" and a backquote for the text before the match and
\* "$" and a quote for the text after it; every other character stands for
\* itself.
GetSubstitution[matched \in Str, before \in Str, after \in Str, repl \in Str] ==
    IF repl = <<>> THEN <<>>
    ELSE IF Head(repl) = "$" /\ Len(repl) >= 2 /\ repl[2] \in {"$", "&", BackQuote, "'"}
         THEN (CASE repl[2] = "$" -> <<"$">>
                 [] repl[2] = "&" -> matched
                 [] repl[2] = BackQuote -> before
                 [] repl[2] = "'" -> after)
              \o GetSubstitution[matched, before, after, SubSeq(repl, 3, Len(repl))]
         ELSE <<Head(repl)>> \o GetSubstitution[matched, before, after, Tail(repl)]

\* String.prototype.replace(pattern, replacement) with a string pattern:
\* only the first occurrence is replaced.
StringReplace(s, pat, repl) ==
    LET pos == IndexOf[s, pat]
    IN IF pos = 0 THEN s
       ELSE LET before == SubSeq(s, 1, pos - 1)
                after  == SubSeq(s, pos + Len(pat), Len(s))
            IN before \o GetSubstitution[pat, before, after, repl] \o after

\* String.prototype.trim; WhiteSpace is what trim and the regexp class \s
\* remove, among the characters the model uses.
WhiteSpace == {" ", "\t", "\r", "\n"}

TrimStart[s \in Str] ==
    IF s # <<>> /\ Head(s) \in WhiteSpace THEN TrimStart[Tail(s)] ELSE s

TrimEnd[s \in Str] ==
    IF s # <<>> /\ s[Len(s)] \in WhiteSpace
    THEN TrimEnd[SubSeq(s, 1, Len(s) - 1)] ELSE s

Trim(s) == TrimEnd[TrimStart[s]]

\* String.prototype.split('\n'): the lines of a text.
Split[s \in Str] ==
    LET pos == IndexOf[s, <<"\n">>]
    IN IF pos = 0 THEN <<s>>
       ELSE <<SubSeq(s, 1, pos - 1)>> \o Split[SubSeq(s, pos + 1, Len(s))]

\* Array.prototype.join(' ')
Join[lines \in Seq(Str)] ==
    IF lines = <<>> THEN <<>>
    ELSE IF Len(lines) = 1 THEN lines[1]
    ELSE lines[1] \o <<" ">> \o Join[Tail(lines)]

\* replace(/pat/g, repl) for a literal pattern: every occurrence, left to
\* right, without rescanning the replacement.
ReplaceAll[s \in Str, pat \in Str, repl \in Str] ==
    LET pos == IndexOf[s, pat]
    IN IF pos = 0 \/ pat = <<>> THEN s
       ELSE SubSeq(s, 1, pos - 1) \o repl
            \o ReplaceAll[SubSeq(s, pos + Len(pat), Len(s)), pat, repl]

\* replace(/<[^>]*>/g, ''): every "<" up to the next ">" is removed; a "<"
\* that no ">" follows stays.
RemoveTags[s \in Str] ==
    LET open == IndexOf[s, <<"<">>]
    IN IF open = 0 THEN s
       ELSE LET rest  == SubSeq(s, open + 1, Len(s))
                close == IndexOf[rest, <<">">>]
            IN IF close = 0 THEN s
               ELSE SubSeq(s, 1, open - 1)
                    \o RemoveTags[SubSeq(rest, close + 1, Len(rest))]

Digits == {"0", "1", "2", "3", "4", "5", "6", "7", "8", "9"}

\* /^\d+$/
IsCueIdentifier(line) ==
    line # <<>> /\ \A i \in 1..Len(line) : line[i] \in Digits

\* \d{2}:\d{2}:\d{2}\.\d{3} at position i of the line
IsTimeAt(line, i) ==
    /\ i + 11 <= Len(line)
    /\ \A k \in {0, 1, 3, 4, 6, 7, 9, 10, 11} : line[i + k] \in Digits
    /\ line[i + 2] = ":" /\ line[i + 5] = ":" /\ line[i + 8] = "."

\* the position of the first character at or after i that \s* does not take
SkipSpace[line \in Str, i \in Nat] ==
    IF i <= Len(line) /\ line[i] \in WhiteSpace THEN SkipSpace[line, i + 1] ELSE i

\* /^\d{2}:\d{2}:\d{2}\.\d{3}\s*-->\s*\d{2}:\d{2}:\d{2}\.\d{3}/
IsTimestampLine(line) ==
    /\ IsTimeAt(line, 1)
    /\ LET a == SkipSpace[line, 13]
       IN /\ a + 2 <= Len(line)
          /\ SubSeq(line, a, a + 2) = <<"-", "-", ">">>
          /\ IsTimeAt(line, SkipSpace[line, a + 3])

WEBVTT == <<"W", "E", "B", "V", "T", "T">>

\* the cue text of one text line of extractTextFromVTT
CleanText(trimmedLine) ==
    Trim(ReplaceAll[ReplaceAll[ReplaceAll[RemoveTags[trimmedLine],
             <<"&", "l", "t", ";">>, <<"<">>],
             <<"&", "g", "t", ";">>, <<">">>],
             <<"&", "a", "m", "p", ";">>, <<"&">>])

\* the loop of extractTextFromVTT over the lines: the text lines collected
ExtractLines[lines \in Seq(Str), isTextLine \in BOOLEAN] ==
    IF lines = <<>> THEN <<>>
    ELSE LET trimmedLine == Trim(Head(lines))
         IN IF trimmedLine = WEBVTT THEN ExtractLines[Tail(lines), isTextLine]
            ELSE IF IsTimestampLine(trimmedLine) THEN ExtractLines[Tail(lines), TRUE]
            ELSE IF trimmedLine = <<>> \/ IsCueIdentifier(trimmedLine)
                 THEN ExtractLines[Tail(lines), FALSE]
            ELSE IF isTextLine /\ CleanText(trimmedLine) # <<>>
                 THEN <<CleanText(trimmedLine)>> \o ExtractLines[Tail(lines), isTextLine]
            ELSE ExtractLines[Tail(lines), isTextLine]

extractTextFromVTT(vttContent) == Join[ExtractLines[Split[vttContent], FALSE]]

(***************************************************************************)
(* The correction loop of applyCorrections.                                *)
(***************************************************************************)
\* an iteration that counts an applied correction without listing it
ApplyOne_NoList(acc, correction) ==
    IF Includes(acc.modifiedContent, correction.original)
    THEN [modifiedContent |-> StringReplace(acc.modifiedContent,
                                            correction.original, correction.corrected),
          changesCount    |-> acc.changesCount + 1,
          appliedChanges  |-> acc.appliedChanges]
    ELSE acc

\* an iteration that counts and lists the correction whether it was found
\* or not
ApplyOne_CountAll(acc, correction) ==
    [modifiedContent |-> StringReplace(acc.modifiedContent,
                                       correction.original, correction.corrected),
     changesCount    |-> acc.changesCount + 1,
     appliedChanges  |-> Append(acc.appliedChanges, correction)]

\* one iteration of the loop over the corrections; acc is the loop's state
\* (modifiedContent, changesCount, appliedChanges)
ApplyOne(acc, correction) ==
    IF Includes(acc.modifiedContent, correction.original)
    THEN [modifiedContent |-> StringReplace(acc.modifiedContent,
                                            correction.original, correction.corrected),
          changesCount    |-> acc.changesCount + 1,
          appliedChanges  |-> Append(acc.appliedChanges, correction)]
    ELSE acc

\* the lists of corrections and the states of the loop
Corrections == Seq([original : Str, corrected : Str, type : STRING])
LoopStates == [modifiedContent : Str, changesCount : Nat, appliedChanges : Corrections]

\* the loop from the state acc over the corrections left
ApplyFrom[acc \in LoopStates, corrections \in Corrections] ==
    IF corrections = <<>> THEN acc
    ELSE ApplyFrom[ApplyOne(acc, Head(corrections)), Tail(corrections)]

\* the whole loop, from the content read by checkVTTFile
ApplyAll(originalContent, corrections) ==
    ApplyFrom[[modifiedContent |-> originalContent, changesCount |-> 0,
               appliedChanges |-> <<>>], corrections]

\* crypto.createHash('md5').update(content).digest('hex'): a digest that
\* tells any two contents of the model apart; the digest of a content is a
\* number built from its characters, never the content itself.
CharCodes == <<"W", "E", "B", "V", "T", "\n", " ", ":", ".", "-", ">", "0", "1",
               "t", "e", "h", "a", "b", "$", "&", "'", BackQuote, "<", ";">>

CharCode(c) ==
    IF \E i \in 1..Len(CharCodes) : CharCodes[i] = c
    THEN CHOOSE i \in 1..Len(CharCodes) : CharCodes[i] = c
    ELSE 0

Digest[content \in Str, h \in Nat] ==
    IF content = <<>> THEN h
    ELSE Digest[Tail(content), (h * 31 + CharCode(Head(content))) % 1000003]

md5(content) == Digest[content, 7]

(***************************************************************************)
(* Files and paths.                                                        *)
(***************************************************************************)
NamePool == <<"a", "b", "c", "d", "e">>

\* the name of the i-th subtitle file of the directory
FileName(i) == <<NamePool[i], ".vtt">>

Names == {FileName(i) : i \in 1..MaxFiles}

\* a file of the directory that is not a subtitle file
OtherFile == <<"notes", ".txt">>

\* this.subtitlesDir
subtitlesDir == <<"subtitles", "/">>

\* path.join(this.subtitlesDir, filename)
FilePath(filename) == subtitlesDir \o filename

\* filePath.replace('.vtt', '.vtt.backup')
backupPath(filePath) == StringReplace(filePath, <<".vtt">>, <<".vtt", ".backup">>)

\* file.endsWith('.vtt')
IsVTT(file) == file # <<>> /\ file[Len(file)] = ".vtt"

Paths == {FilePath(n) : n \in Names} \cup {backupPath(FilePath(n)) : n \in Names}
         \cup {FilePath(OtherFile)}

NoFile == <<"NoFile">>      \* the content of a path where no file is
Null == -1                  \* the null that getFileHash returns for a hash

\* The state file: absent, unreadable or unparseable (corrupt or partly
\* written), or the JSON text of a mapping.
NoStateFile == [exists |-> FALSE, parses |-> FALSE, data |-> <<>>]
Corrupt == [exists |-> TRUE, parses |-> FALSE, data |-> <<>>]
JsonFile(st) == [exists |-> TRUE, parses |-> TRUE, data |-> st]

\* Contents of subtitle files.
Header == WEBVTT \o <<"\n", "\n">>
Timing == <<"0", "0", ":", "0", "0", ":", "0", "1", ".", "0", "0", "0", " ",
            "-", "-", ">", " ",
            "0", "0", ":", "0", "0", ":", "0", "2", ".", "0", "0", "0", "\n">>
TextVTT == Header \o <<"1", "\n">> \o Timing \o <<"t", "e", "h", " ", "t", "e", "h", "\n">>
EmptyVTT == Header \o <<"1", "\n">> \o Timing \o <<" ", "\n">>
FileContents == {TextVTT, EmptyVTT}
StaleBackup == Header

\* Corrections the analysis may return for the files of the model.
Fix == [original |-> <<"t", "e", "h">>, corrected |-> <<"t", "h", "e">>, type |-> "spelling"]
Missing == [original |-> <<"t", "h", "a">>, corrected |-> <<"t", "h", "e">>, type |-> "grammar"]
CorrectionLists == {<<>>, <<Fix>>, <<Missing>>, <<Fix, Missing>>}

\* The results analyzeWithOpenRouter returns when the API key is set: the
\* request failed (network error, timeout, non-2xx), or it succeeded with a
\* list of corrections (empty when the response does not parse).
\* (hasCorrections says whether the result has a corrections property.)
\* (text says what the result's analysis property holds: the raw response,
\* the analysis text of the parsed response, or nothing.)
AnalysisOutcomes ==
    {[status |-> "error", text |-> "none", hasCorrections |-> FALSE, corrections |-> <<>>],
     [status |-> "success", text |-> "raw", hasCorrections |-> TRUE, corrections |-> <<>>]}
    \cup {[status |-> "success", text |-> "parsed", hasCorrections |-> TRUE,
            corrections |-> cl] : cl \in CorrectionLists}

Skipped == [status |-> "skipped", text |-> "none", hasCorrections |-> FALSE,
            corrections |-> <<>>]
NoAnalysis == [status |-> "none", text |-> "none", hasCorrections |-> FALSE,
               corrections |-> <<>>]

\* What the request of analyzeWithOpenRouter brings back: nothing (the
\* request failed: network error, timeout, non-2xx, no choices), a content
\* that JSON.parse rejects, or a content that parses, with its corrections.
Responses ==
    {[kind |-> "failed", corrections |-> <<>>],
     [kind |-> "unparseable", corrections |-> <<>>]}
    \cup {[kind |-> "json", corrections |-> cl] : cl \in CorrectionLists}

\* no request was made
NoResponse == [kind |-> "none", corrections |-> <<>>]

\* analyzeWithOpenRouter that fails on a content it cannot parse
analyzeWithOpenRouter_ParseFails(key, resp) ==
    IF ~key THEN [result |-> Skipped, response |-> NoResponse]
    ELSE [response |-> resp,
          result |->
            IF resp.kind \in {"failed", "unparseable"}
            THEN [status |-> "error", text |-> "none", hasCorrections |-> FALSE,
                  corrections |-> <<>>]
            ELSE [status |-> "success", text |-> "parsed", hasCorrections |-> TRUE,
                  corrections |-> resp.corrections]]

\* analyzeWithOpenRouter that makes its request without looking at the key
analyzeWithOpenRouter_NoKeyCheck(key, resp) ==
    [response |-> resp,
     result |->
       IF resp.kind = "failed"
       THEN [status |-> "error", text |-> "none", hasCorrections |-> FALSE,
             corrections |-> <<>>]
       ELSE IF resp.kind = "unparseable"
       THEN [status |-> "success", text |-> "raw", hasCorrections |-> TRUE,
             corrections |-> <<>>]
       ELSE [status |-> "success", text |-> "parsed", hasCorrections |-> TRUE,
             corrections |-> resp.corrections]]

\* analyzeWithOpenRouter: without API key it returns skipped and makes no
\* request; otherwise resp is what the request brings back.  A failed
\* request gives status error; a content that does not parse gives status
\* success with the raw content as analysis and no corrections; a parsed
\* content gives status success with its corrections.  (response is the
\* response received, NoResponse when no request was made.)
analyzeWithOpenRouter(key, resp) ==
    IF ~key THEN [result |-> Skipped, response |-> NoResponse]
    ELSE [response |-> resp,
          result |->
            IF resp.kind = "failed"
            THEN [status |-> "error", text |-> "none", hasCorrections |-> FALSE,
                  corrections |-> <<>>]
            ELSE IF resp.kind = "unparseable"
            THEN [status |-> "success", text |-> "raw", hasCorrections |-> TRUE,
                  corrections |-> <<>>]
            ELSE [status |-> "success", text |-> "parsed", hasCorrections |-> TRUE,
                  corrections |-> resp.corrections]]

\* analysis.corrections && analysis.corrections.length > 0, as a boolean
HasCorrections(a) == a.hasCorrections /\ Len(a.corrections) > 0

\* the value stored as hasErrors, as JSON text: undefined when the result
\* has no corrections property
HasErrorsValue(a) ==
    IF ~a.hasCorrections THEN "undefined"
    ELSE IF Len(a.corrections) > 0 THEN "true" ELSE "false"

\* the values applyCorrections returns (a failure carries no changesCount,
\* which reads as 0 in the comparisons made of it)
FixSuccess(acc) ==
    [success |-> TRUE, changesCount |-> acc.changesCount,
     appliedChanges |-> acc.appliedChanges]
FixFailure == [success |-> FALSE, changesCount |-> 0, appliedChanges |-> <<>>]
NoFixResult == [success |-> FALSE, changesCount |-> 0, appliedChanges |-> <<>>]

\* the entries of this.results: {filename, error}, {filename, analysis} or
\* {filename, analysis, fixResult}
ErrorResult(f) ==
    [filename |-> f, kind |-> "error", analysis |-> NoAnalysis, fixResult |-> NoFixResult]
AnalysisResult(f, a) ==
    [filename |-> f, kind |-> "analysis", analysis |-> a, fixResult |-> NoFixResult]
FixedResult(f, a, r) ==
    [filename |-> f, kind |-> "fix", analysis |-> a, fixResult |-> r]

\* the branch of generateReport's loop a result takes: error, skipped or
\* success
Classify(result) ==
    IF result.kind = "error" THEN "error"
    ELSE IF result.analysis.status = "skipped" THEN "skipped"
    ELSE IF result.analysis.status = "success" THEN "success"
    ELSE "error"

\* fixedFiles.reduce((sum, file) => sum + file.changesCount, 0)
TotalCorrections(ff) ==
    LET sum[i \in 0..Len(ff)] == IF i = 0 THEN 0 ELSE sum[i - 1] + ff[i].changesCount
    IN sum[Len(ff)]

\* the report when this.results is empty: "No files were processed." and
\* no count is printed
EmptyReport ==
    [printed |-> TRUE, summary |-> FALSE, successCount |-> 0, errorCount |-> 0,
     skipped |-> 0, total |-> 0, filesCorrected |-> 0, totalCorrections |-> 0]

\* no report has been printed
NoReport ==
    [printed |-> FALSE, summary |-> FALSE, successCount |-> 0, errorCount |-> 0,
     skipped |-> 0, total |-> 0, filesCorrected |-> 0, totalCorrections |-> 0]

\* generateReport without the test for no results, which counts one file
\* more than the results hold
generateReport_CountsListing(rs, ff) ==
    [printed |-> TRUE, summary |-> TRUE,
     successCount |-> Cardinality({i \in 1..Len(rs) : Classify(rs[i]) = "success"}),
     errorCount |-> Cardinality({i \in 1..Len(rs) : Classify(rs[i]) = "error"}),
     skipped |-> Cardinality({i \in 1..Len(rs) : Classify(rs[i]) = "skipped"}),
     total |-> Len(rs) + 1,
     filesCorrected |-> Len(ff),
     totalCorrections |-> TotalCorrections(ff)]

\* generateReport whose branch for a skipped analysis also counts the file
\* as successfully analyzed
generateReport_SkippedIsSuccess(rs, ff) ==
    IF Len(rs) = 0 THEN EmptyReport
    ELSE [printed |-> TRUE, summary |-> TRUE,
          successCount |-> Cardinality({i \in 1..Len(rs) :
                                          Classify(rs[i]) \in {"success", "skipped"}}),
          errorCount |-> Cardinality({i \in 1..Len(rs) : Classify(rs[i]) = "error"}),
          skipped |-> Cardinality({i \in 1..Len(rs) : Classify(rs[i]) = "skipped"}),
          total |-> Len(rs),
          filesCorrected |-> Len(ff),
          totalCorrections |-> TotalCorrections(ff)]

\* generateReport: the counts of the summary, from this.results and
\* this.fixedFiles (skipped is the number of "Skipped:" lines, the files
\* that neither counter counts)
generateReport(rs, ff) ==
    IF Len(rs) = 0 THEN EmptyReport
    ELSE [printed |-> TRUE, summary |-> TRUE,
          successCount |-> Cardinality({i \in 1..Len(rs) : Classify(rs[i]) = "success"}),
          errorCount |-> Cardinality({i \in 1..Len(rs) : Classify(rs[i]) = "error"}),
          skipped |-> Cardinality({i \in 1..Len(rs) : Classify(rs[i]) = "skipped"}),
          total |-> Len(rs),
          filesCorrected |-> Len(ff),
          totalCorrections |-> TotalCorrections(ff)]

\* the proper prefixes an interrupted write can leave of a content
PartialWrites(c) == {SubSeq(c, 1, k) : k \in {0, Len(c) - 1}}

VARIABLES
    mainpc,           \* position of init()
    maxConcurrency,   \* this.maxConcurrency
    apiKey,           \* whether this.apiKey is set
    forceReprocess,   \* this.forceReprocess
    dirExists,        \* whether the subtitles directory exists
    dirList,          \* the directory listing, in readdir order
    disk,             \* the content of every path
    stateFile,        \* the content of the state file
    state,            \* this.state
    toDecide,         \* the .vtt files the decision loop has not reached
    filesToProcess,   \* filesToProcess
    skippedFiles,     \* skippedFiles
    current,          \* Semaphore.current
    waiting,          \* Semaphore.waiting: the files whose acquire is queued
    pc,               \* position of every file's pipeline
    content,          \* checkVTTFile's content, per file
    analysis,         \* checkVTTFile's analysis, per file
    response,         \* the response analyzeWithOpenRouter received, per file
    fix,              \* applyCorrections' loop result, per file
    results,          \* this.results
    fixedFiles,       \* this.fixedFiles
    faults,           \* number of I/O faults so far
    saves,            \* number of calls of saveState
    saveFailed,       \* whether the catch of saveState has run
    released,         \* number of calls of the release token, per file
    run,              \* 1 in the first run of the program, 2 in a second one
    prev,             \* what the first run left, once a second run has begun
    stateFile0,       \* the content of the state file when the run began
    report,           \* the counts generateReport printed
    exitCode,         \* the exit code of the process, Null while it runs
    \* the correction loop run on its own
    loopInput,        \* the content and the corrections applyCorrections is given
    loopAcc,          \* modifiedContent, changesCount, appliedChanges
    loopRest,         \* the corrections the loop has not reached
    loopResult,       \* what applyCorrections returns when nothing is written
    loopPc,           \* "loop" or "returned"
    \* the Semaphore used on its own
    caller,           \* every caller: idle, waiting, holding or released
    callOrder,        \* the callers in the order of their acquire calls
    grantOrder,       \* the callers in the order their acquire resolved
    releaseCalls,     \* number of calls of release
    wakeups,          \* number of waiters release has run
    \* shouldProcessFile called on its own
    decideInput,      \* the force flag, the stored entry, the content, the faults
    decision,         \* what shouldProcessFile returned
    \* the backup path computed on its own
    pathInput,        \* filePath
    pathOutput,       \* backupPath
    \* the environment and the program that runs
    setting,          \* process.env.MAX_CONCURRENCY
    variant           \* which of the checkers runs

mainVars == <<mainpc, apiKey, forceReprocess, dirExists, dirList, disk,
              stateFile, state, toDecide, filesToProcess, skippedFiles,
              pc, content, analysis, response, fix, results, fixedFiles, faults, saves,
              saveFailed, released, run, prev, stateFile0, report, exitCode>>
semVars == <<maxConcurrency, current, waiting>>
loopVars == <<loopInput, loopAcc, loopRest, loopResult, loopPc>>
callVars == <<caller, callOrder, grantOrder, releaseCalls, wakeups>>
decideVars == <<decideInput, decision, pathInput, pathOutput>>
runVars == <<run, prev, stateFile0>>
sideVars == <<setting, variant>>
outcome == <<report, exitCode>>
aside == <<loopVars, callVars, decideVars, runVars, sideVars>>

vars == <<mainVars, semVars, loopVars, callVars, decideVars, sideVars>>

config == <<maxConcurrency, apiKey, forceReprocess, dirList>>
pipeline == <<pc, content, analysis, response, fix, results, fixedFiles, released>>
semaphore == <<current, waiting>>

\* the listing of a directory holding the first n subtitle files
Listing(n) == [i \in 1..n |-> FileName(i)] \o <<OtherFile>>

\* the state files a run can find: none, an unparseable one, or the entry a
\* previous run left for the first file when its content was TextVTT
StateFiles ==
    {NoStateFile, Corrupt,
     JsonFile([n \in {FileName(1)} |-> [hash |-> md5(TextVTT), lastProcessed |-> 0,
                                        hasErrors |-> "false"]])}

\* The inputs of the correction loop run on its own.
Alphabet == {"a", "b"}
RECURSIVE StringsUpTo(_)
StringsUpTo(n) ==
    IF n = 0 THEN {<<>>}
    ELSE LET shorter == StringsUpTo(n - 1)
         IN shorter \cup {Append(w, c) : w \in shorter, c \in Alphabet}
Originals == {<<>>, <<"a">>, <<"b">>, <<"a", "b">>}
Replacements == {<<"b">>, <<"a", "b">>, <<"$", "&">>, <<"$", "$">>}
LoopCorrections ==
    {[original |-> o, corrected |-> c, type |-> "spelling"] :
        o \in Originals, c \in Replacements}
RECURSIVE ListsUpTo(_)
ListsUpTo(n) ==
    IF n = 0 THEN {<<>>}
    ELSE LET shorter == ListsUpTo(n - 1)
         IN shorter \cup {Append(l, c) : l \in shorter, c \in LoopCorrections}

Callers == 1..MaxCallers

\* what a first run left: the files it processed with success, the files
\* whose analysis returned status error or skipped, the files it found
\* without cue text, the disk, the mapping of the state file and the number
\* of faults so far
NoPrev == [ok |-> {}, unanalysed |-> {}, noText |-> {},
           disk |-> [p \in Paths |-> NoFile], data |-> <<>>, faults |-> 0]

\* the variables of the run, of the loop and of the callers while another
\* specification runs
MainIdle ==
    /\ mainpc = "off"
    /\ apiKey = FALSE
    /\ forceReprocess = FALSE
    /\ dirExists = FALSE
    /\ dirList = <<>>
    /\ disk = [p \in Paths |-> NoFile]
    /\ stateFile = NoStateFile
    /\ state = <<>>
    /\ toDecide = <<>>
    /\ filesToProcess = <<>>
    /\ skippedFiles = <<>>
    /\ pc = [n \in Names |-> "idle"]
    /\ content = [n \in Names |-> <<>>]
    /\ analysis = [n \in Names |-> NoAnalysis]
    /\ response = [n \in Names |-> NoResponse]
    /\ fix = [n \in Names |-> ApplyAll(<<>>, <<>>)]
    /\ results = <<>>
    /\ fixedFiles = <<>>
    /\ faults = 0
    /\ saves = 0
    /\ saveFailed = FALSE
    /\ released = [n \in Names |-> 0]
    /\ run = 1
    /\ prev = NoPrev
    /\ stateFile0 = stateFile
    /\ report = NoReport
    /\ exitCode = Null

LoopIdle ==
    /\ loopInput = [content |-> <<>>, corrections |-> <<>>]
    /\ loopAcc = ApplyAll(<<>>, <<>>)
    /\ loopRest = <<>>
    /\ loopResult = NoFixResult
    /\ loopPc = "off"

\* the entries of this.state, as the state file holds them
Entries == [hash : {md5(TextVTT), md5(EmptyVTT), Null}, lastProcessed : {0, 1},
            hasErrors : {"true", "false"}]

\* the calls of shouldProcessFile: the entry matters when hasEntry is set
DecideInputs ==
    [force : BOOLEAN, hasEntry : BOOLEAN, entry : Entries, content : FileContents,
     statFault : BOOLEAN, hashFault : BOOLEAN]

NoDecision == [should |-> FALSE, reason |-> "none"]

CallIdle ==
    /\ caller = [c \in Callers |-> "idle"]
    /\ callOrder = <<>>
    /\ grantOrder = <<>>
    /\ releaseCalls = 0
    /\ wakeups = 0

\* the parts of the paths, and the paths of eligible files: any parts, the
\* last one .vtt
PathParts == {"a", "b", ".vtt", "/"}
RECURSIVE PartsUpTo(_)
PartsUpTo(n) ==
    IF n = 0 THEN {<<>>}
    ELSE LET shorter == PartsUpTo(n - 1)
         IN shorter \cup {Append(w, c) : w \in shorter, c \in PathParts}
EligiblePaths == {Append(w, ".vtt") : w \in PartsUpTo(MaxPath - 1)}

\* the decimal digits in order, and the setting that spells a limit of one
\* digit
DecimalDigits == <<"0", "1", "2", "3", "4", "5", "6", "7", "8", "9">>
SettingOf(n) == <<DecimalDigits[n + 1]>>

\* the environment of a run the other specifications start: the setting
\* spells the limit in use, and the program is the parallel checker
SideIdle ==
    /\ setting = SettingOf(maxConcurrency)
    /\ variant = "parallel"

DecideIdle ==
    /\ decideInput = CHOOSE i \in DecideInputs : TRUE
    /\ decision = NoDecision

PathIdle ==
    /\ pathInput = <<>>
    /\ pathOutput = <<>>

Init ==
    /\ LoopIdle
    /\ CallIdle
    /\ DecideIdle
    /\ PathIdle
    /\ mainpc = "loadState"
    /\ maxConcurrency \in 1..MaxLimit
    /\ apiKey \in BOOLEAN
    /\ forceReprocess \in BOOLEAN
    /\ dirExists \in BOOLEAN
    /\ \E n \in 0..MaxFiles :
         /\ dirList = (IF dirExists THEN Listing(n) ELSE <<>>)
         /\ \E cs \in [1..n -> FileContents] :
              disk = [p \in Paths |->
                        IF ~dirExists THEN NoFile
                        ELSE IF \E i \in 1..n : p = FilePath(FileName(i))
                             THEN cs[CHOOSE i \in 1..n : p = FilePath(FileName(i))]
                        ELSE IF p = FilePath(OtherFile) THEN <<"a">>
                        ELSE IF p = backupPath(FilePath(FileName(1))) THEN StaleBackup
                        ELSE NoFile]
    /\ stateFile \in StateFiles
    /\ state = <<>>
    /\ toDecide = <<>>
    /\ filesToProcess = <<>>
    /\ skippedFiles = <<>>
    /\ current = 0
    /\ waiting = <<>>
    /\ pc = [n \in Names |-> "idle"]
    /\ content = [n \in Names |-> <<>>]
    /\ analysis = [n \in Names |-> NoAnalysis]
    /\ response = [n \in Names |-> NoResponse]
    /\ fix = [n \in Names |-> ApplyAll(<<>>, <<>>)]
    /\ results = <<>>
    /\ fixedFiles = <<>>
    /\ faults = 0
    /\ saves = 0
    /\ saveFailed = FALSE
    /\ released = [n \in Names |-> 0]
    /\ run = 1
    /\ prev = NoPrev
    /\ stateFile0 = stateFile
    /\ report = NoReport
    /\ exitCode = Null
    /\ SideIdle

(***************************************************************************)
(* Semaphore.                                                              *)
(***************************************************************************)
\* acquire with the test current <= max
acquire_OffByOne(max, cur, wait, who) ==
    IF cur <= max
    THEN [current |-> cur + 1, waiting |-> wait, granted |-> {who}]
    ELSE [current |-> cur, waiting |-> Append(wait, who), granted |-> {}]

\* Semaphore.acquire called for who: the permit is granted at once when
\* current < max, and the caller is queued otherwise.
acquire(max, cur, wait, who) ==
    IF cur < max
    THEN [current |-> cur + 1, waiting |-> wait, granted |-> {who}]
    ELSE [current |-> cur, waiting |-> Append(wait, who), granted |-> {}]

\* release that frees the permit without running a waiter
release_NoWake(cur, wait) ==
    [current |-> cur - 1, waiting |-> wait, granted |-> {}]

\* release that runs the last waiter of the queue (pop for shift)
release_LIFO(cur, wait) ==
    IF Len(wait) > 0
    THEN [current |-> (cur - 1) + 1, waiting |-> SubSeq(wait, 1, Len(wait) - 1),
          granted |-> {wait[Len(wait)]}]
    ELSE [current |-> cur - 1, waiting |-> wait, granted |-> {}]

\* Semaphore.release: current--, then the first waiter, if any, is taken
\* off the queue and run, which does current++ and resolves its acquire.
release(cur, wait) ==
    IF Len(wait) > 0
    THEN [current |-> (cur - 1) + 1, waiting |-> Tail(wait), granted |-> {Head(wait)}]
    ELSE [current |-> cur - 1, waiting |-> wait, granted |-> {}]

(***************************************************************************)
(* The state store.                                                        *)
(***************************************************************************)
\* this.state[filename] = entry
SetEntry(st, filename, entry) ==
    [n \in DOMAIN st \cup {filename} |-> IF n = filename THEN entry ELSE st[n]]

\* getFileHash: the digest of the file's content, null when the read fails
getFileHash(d, filePath, fault) ==
    IF fault \/ d[filePath] = NoFile THEN Null ELSE md5(d[filePath])

\* shouldProcessFile that does not look at the force flag
shouldProcessFile_NoForce(st, d, force, filename, statFault, hashFault) ==
    IF statFault THEN [should |-> TRUE, reason |-> "error checking file state"]
    ELSE IF filename \notin DOMAIN st THEN [should |-> TRUE, reason |-> "new file"]
    ELSE IF st[filename].hash # getFileHash(d, FilePath(filename), hashFault)
         THEN [should |-> TRUE, reason |-> "file modified"]
    ELSE [should |-> FALSE, reason |-> "already processed and unchanged"]

\* shouldProcessFile that also processes a file recorded with errors
shouldProcessFile_Retry(st, d, force, filename, statFault, hashFault) ==
    IF force THEN [should |-> TRUE, reason |-> "forced reprocessing"]
    ELSE IF statFault THEN [should |-> TRUE, reason |-> "error checking file state"]
    ELSE IF filename \notin DOMAIN st THEN [should |-> TRUE, reason |-> "new file"]
    ELSE IF st[filename].hash # getFileHash(d, FilePath(filename), hashFault)
            \/ st[filename].hasErrors = "true"
         THEN [should |-> TRUE, reason |-> "file modified"]
    ELSE [should |-> FALSE, reason |-> "already processed and unchanged"]

\* shouldProcessFile; statFault and hashFault say whether fs.stat and the
\* read of getFileHash fail
shouldProcessFile(st, d, force, filename, statFault, hashFault) ==
    IF force THEN [should |-> TRUE, reason |-> "forced reprocessing"]
    ELSE IF statFault THEN [should |-> TRUE, reason |-> "error checking file state"]
    ELSE IF filename \notin DOMAIN st THEN [should |-> TRUE, reason |-> "new file"]
    ELSE IF st[filename].hash # getFileHash(d, FilePath(filename), hashFault)
         THEN [should |-> TRUE, reason |-> "file modified"]
    ELSE [should |-> FALSE, reason |-> "already processed and unchanged"]

\* Array.prototype.filter over the listing: the files ending in .vtt
RECURSIVE vttFilesOf(_)
vttFilesOf(files) ==
    IF files = <<>> THEN <<>>
    ELSE IF IsVTT(Head(files)) THEN <<Head(files)>> \o vttFilesOf(Tail(files))
    ELSE vttFilesOf(Tail(files))

(***************************************************************************)
(* init, loadState, processVTTFiles.                                       *)
(***************************************************************************)
\* whether one more I/O fault may be injected
MayFault == faults < MaxFaults

\* loadState without its catch: a state file that cannot be read or parsed
\* rejects init, and the catch of main() exits with code 1
LoadState_Fatal ==
    /\ mainpc = "loadState"
    /\ IF stateFile.exists /\ ~stateFile.parses
       THEN mainpc' = "done" /\ exitCode' = 1 /\ UNCHANGED state
       ELSE /\ state' = (IF ~stateFile.exists THEN <<>> ELSE stateFile.data)
            /\ mainpc' = "pathExists"
            /\ UNCHANGED exitCode
    /\ UNCHANGED aside
    /\ UNCHANGED report
    /\ UNCHANGED <<config, saveFailed, dirExists, disk, stateFile, toDecide, filesToProcess,
                   skippedFiles, semaphore, pipeline, faults, saves>>

\* loadState: the state file's mapping, or {} when the file is missing or
\* cannot be read or parsed
LoadState ==
    /\ mainpc = "loadState"
    /\ state' = (IF ~stateFile.exists \/ ~stateFile.parses THEN <<>> ELSE stateFile.data)
    /\ mainpc' = "pathExists"
    /\ UNCHANGED aside
    /\ UNCHANGED outcome
    /\ UNCHANGED <<config, saveFailed, dirExists, disk, stateFile, toDecide, filesToProcess,
                   skippedFiles, semaphore, pipeline, faults, saves>>

\* init after loadState: a missing directory is created and the run ends
\* without processing, saving or reporting; main returns and the process
\* exits with code 0.  When ensureDir fails init rejects, and the catch of
\* main() exits with code 1.
CheckDir ==
    /\ mainpc = "pathExists"
    /\ \/ /\ dirExists
          /\ mainpc' = "readdir"
          /\ UNCHANGED <<dirExists, faults, exitCode>>
       \/ /\ ~dirExists
          /\ mainpc' = "done"
          /\ dirExists' = TRUE
          /\ exitCode' = 0
          /\ UNCHANGED faults
       \/ /\ ~dirExists
          /\ MayFault
          /\ faults' = faults + 1
          /\ mainpc' = "done"
          /\ exitCode' = 1
          /\ UNCHANGED dirExists
    /\ UNCHANGED aside
    /\ UNCHANGED report
    /\ UNCHANGED <<config, saveFailed, disk, stateFile, state, toDecide, filesToProcess,
                   skippedFiles, semaphore, pipeline, saves>>

\* processVTTFiles up to the decision loop: a failing readdir is caught and
\* no .vtt file ends processVTTFiles; init then goes on to saveState
ReadDir ==
    /\ mainpc = "readdir"
    /\ \E fault \in {FALSE} \cup {b \in {TRUE} : MayFault} :
         /\ faults' = faults + (IF fault THEN 1 ELSE 0)
         /\ IF fault \/ vttFilesOf(dirList) = <<>>
            THEN mainpc' = "saveState" /\ UNCHANGED toDecide
            ELSE mainpc' = "decide" /\ toDecide' = vttFilesOf(dirList)
    /\ UNCHANGED aside
    /\ UNCHANGED outcome
    /\ UNCHANGED <<config, saveFailed, dirExists, disk, stateFile, state, filesToProcess,
                   skippedFiles, semaphore, pipeline, saves>>

\* one iteration of the decision loop; after the last one processVTTFiles
\* returns when nothing is to be processed and dispatches otherwise
DecideFile ==
    /\ mainpc = "decide"
    /\ toDecide # <<>>
    /\ \E statFault, hashFault \in BOOLEAN :
         /\ (statFault \/ hashFault) => (MayFault /\ ~forceReprocess)
         /\ ~(statFault /\ hashFault)
         /\ faults' = faults + (IF statFault \/ hashFault THEN 1 ELSE 0)
         /\ LET file == Head(toDecide)
                d == shouldProcessFile(state, disk, forceReprocess, file,
                                       statFault, hashFault)
                toProcess == IF d.should
                             THEN Append(filesToProcess, [filename |-> file, reason |-> d.reason])
                             ELSE filesToProcess
            IN /\ filesToProcess' = toProcess
               /\ skippedFiles' = (IF d.should THEN skippedFiles
                                   ELSE Append(skippedFiles, [filename |-> file, reason |-> d.reason]))
               /\ toDecide' = Tail(toDecide)
               /\ mainpc' = (IF Tail(toDecide) # <<>> THEN "decide"
                             ELSE IF toProcess = <<>> THEN "saveState"
                             ELSE "dispatch")
    /\ UNCHANGED aside
    /\ UNCHANGED outcome
    /\ UNCHANGED <<config, saveFailed, dirExists, disk, stateFile, state, semaphore, pipeline, saves>>

\* the files given to processFilesInParallel
Dispatched == {filesToProcess[i].filename : i \in 1..Len(filesToProcess)}

(***************************************************************************)
(* processFilesInParallel.                                                 *)
(***************************************************************************)
\* filenames.map: semaphore.acquire() is called for every file in order,
\* before any pipeline starts.  The then-callback of a granted acquire runs
\* as a microtask, before any I/O completes: the granted file's
\* checkVTTFile has called readFile when the next I/O callback runs.
Acquire ==
    /\ mainpc = "dispatch"
    /\ \E i \in 1..Len(filesToProcess) :
         /\ pc[filesToProcess[i].filename] = "idle"
         /\ \A j \in 1..(i - 1) : pc[filesToProcess[j].filename] # "idle"
         /\ LET f == filesToProcess[i].filename
                a == acquire(maxConcurrency, current, waiting, f)
            IN /\ current' = a.current
               /\ waiting' = a.waiting
               /\ pc' = [pc EXCEPT ![f] = IF f \in a.granted THEN "readFile" ELSE "waiting"]
               /\ mainpc' = (IF i = Len(filesToProcess) THEN "barrier" ELSE "dispatch")
    /\ UNCHANGED aside
    /\ UNCHANGED outcome
    /\ UNCHANGED <<config, saveFailed, dirExists, disk, stateFile, state, toDecide, filesToProcess,
                   skippedFiles, content, analysis, response, fix, results, fixedFiles, faults,
                   saves, released>>

\* a pipeline that ends without calling its release token
Finish_Leak(f) ==
    /\ pc' = [pc EXCEPT ![f] = "done"]
    /\ UNCHANGED <<current, waiting, released>>

\* the finally block of a pipeline: the release token is called once; the
\* waiter it wakes starts its checkVTTFile
Finish(f) ==
    LET r == release(current, waiting)
    IN /\ current' = r.current
       /\ waiting' = r.waiting
       /\ pc' = [n \in Names |-> IF n = f THEN "done"
                                 ELSE IF n \in r.granted THEN "readFile"
                                 ELSE pc[n]]
       /\ released' = [released EXCEPT ![f] = @ + 1]

(***************************************************************************)
(* checkVTTFile and applyCorrections.                                      *)
(***************************************************************************)
\* the entries of this.results
\* readFile returns, with a failed read that checkVTTFile does not catch:
\* the pipeline's promise rejects and so does Promise.all; processVTTFiles
\* catches the rejection and init goes on to saveState
ReadDone_Uncaught(f) ==
    /\ pc[f] = "readFile"
    /\ \E fault \in {FALSE} \cup {b \in {TRUE} : faults < MaxFaults} :
         /\ faults' = faults + (IF fault THEN 1 ELSE 0)
         /\ IF fault \/ disk[FilePath(f)] = NoFile
            THEN /\ mainpc' = "saveState"
                 /\ Finish(f)
                 /\ UNCHANGED <<content, results>>
            ELSE /\ content' = [content EXCEPT ![f] = disk[FilePath(f)]]
                 /\ UNCHANGED <<results, mainpc>>
                 /\ IF Trim(extractTextFromVTT(disk[FilePath(f)])) = <<>>
                    THEN Finish(f)
                    ELSE /\ pc' = [pc EXCEPT ![f] = "analyze"]
                         /\ UNCHANGED <<semaphore, released>>
    /\ UNCHANGED aside
    /\ UNCHANGED outcome
    /\ UNCHANGED <<config, saveFailed, dirExists, disk, stateFile, state, toDecide,
                   filesToProcess, skippedFiles, analysis, response, fix, fixedFiles, saves>>

\* readFile returns, without the test of the extracted text: every file
\* that was read is analyzed
ReadDone_NoEmptyCheck(f) ==
    /\ pc[f] = "readFile"
    /\ \E fault \in {FALSE} \cup {b \in {TRUE} : MayFault} :
         /\ faults' = faults + (IF fault THEN 1 ELSE 0)
         /\ IF fault \/ disk[FilePath(f)] = NoFile
            THEN /\ results' = Append(results, ErrorResult(f))
                 /\ Finish(f)
                 /\ UNCHANGED content
            ELSE /\ content' = [content EXCEPT ![f] = disk[FilePath(f)]]
                 /\ UNCHANGED results
                 /\ pc' = [pc EXCEPT ![f] = "analyze"]
                 /\ UNCHANGED <<semaphore, released>>
    /\ UNCHANGED aside
    /\ UNCHANGED outcome
    /\ UNCHANGED <<mainpc, config, saveFailed, dirExists, disk, stateFile, state, toDecide,
                   filesToProcess, skippedFiles, analysis, response, fix, fixedFiles, saves>>

\* checkVTTFile that records a state entry for a file without cue text
\* before it returns
ReadDone_RecordsEmpty(f) ==
    /\ pc[f] = "readFile"
    /\ \E fault \in {FALSE} \cup {b \in {TRUE} : MayFault} :
         /\ faults' = faults + (IF fault THEN 1 ELSE 0)
         /\ IF fault \/ disk[FilePath(f)] = NoFile
            THEN /\ results' = Append(results, ErrorResult(f))
                 /\ Finish(f)
                 /\ UNCHANGED <<content, state>>
            ELSE /\ content' = [content EXCEPT ![f] = disk[FilePath(f)]]
                 /\ UNCHANGED results
                 /\ IF Trim(extractTextFromVTT(disk[FilePath(f)])) = <<>>
                    THEN /\ Finish(f)
                         /\ state' = SetEntry(state, f,
                                        [hash |-> md5(disk[FilePath(f)]),
                                         lastProcessed |-> 1,
                                         hasErrors |-> "false"])
                    ELSE /\ pc' = [pc EXCEPT ![f] = "analyze"]
                         /\ UNCHANGED <<semaphore, released, state>>
    /\ UNCHANGED aside
    /\ UNCHANGED outcome
    /\ UNCHANGED <<mainpc, config, saveFailed, dirExists, disk, stateFile, toDecide,
                   filesToProcess, skippedFiles, analysis, response, fix, fixedFiles, saves>>

\* readFile returns.  A failed read is caught by checkVTTFile and becomes
\* an error result; a file without cue text ends the pipeline with no
\* result; otherwise analyzeWithOpenRouter is called.
ReadDone(f) ==
    /\ pc[f] = "readFile"
    /\ \E fault \in {FALSE} \cup {b \in {TRUE} : MayFault} :
         /\ faults' = faults + (IF fault THEN 1 ELSE 0)
         /\ IF fault \/ disk[FilePath(f)] = NoFile
            THEN /\ results' = Append(results, ErrorResult(f))
                 /\ Finish(f)
                 /\ UNCHANGED content
            ELSE /\ content' = [content EXCEPT ![f] = disk[FilePath(f)]]
                 /\ UNCHANGED results
                 /\ IF Trim(extractTextFromVTT(disk[FilePath(f)])) = <<>>
                    THEN Finish(f)
                    ELSE /\ pc' = [pc EXCEPT ![f] = "analyze"]
                         /\ UNCHANGED <<semaphore, released>>
    /\ UNCHANGED aside
    /\ UNCHANGED outcome
    /\ UNCHANGED <<mainpc, config, saveFailed, dirExists, disk, stateFile, state, toDecide,
                   filesToProcess, skippedFiles, analysis, response, fix, fixedFiles, saves>>

\* analyzeWithOpenRouter returns: skipped without a request when no API key
\* is set, otherwise the outcome of the request.  checkVTTFile goes on to
\* getFileHash.
AnalyzeDone(f) ==
    /\ pc[f] = "analyze"
    /\ \E resp \in Responses :
         LET a == analyzeWithOpenRouter(apiKey, resp)
         IN /\ analysis' = [analysis EXCEPT ![f] = a.result]
            /\ response' = [response EXCEPT ![f] = a.response]
    /\ pc' = [pc EXCEPT ![f] = "getFileHash"]
    /\ UNCHANGED aside
    /\ UNCHANGED outcome
    /\ UNCHANGED <<mainpc, config, saveFailed, dirExists, disk, stateFile, state, toDecide,
                   filesToProcess, skippedFiles, semaphore, content, fix, results,
                   fixedFiles, faults, saves, released>>

\* applyCorrections without the test changesCount > 0: the backup and the
\* write are made whatever the loop applied
HashDone_NoGuard(f) ==
    /\ pc[f] = "getFileHash"
    /\ \E fault \in {FALSE} \cup {b \in {TRUE} : MayFault} :
         /\ faults' = faults + (IF fault THEN 1 ELSE 0)
         /\ state' = SetEntry(state, f,
                        [hash |-> getFileHash(disk, FilePath(f), fault),
                         lastProcessed |-> 1,
                         hasErrors |-> HasErrorsValue(analysis[f])])
    /\ IF analysis[f].status = "success" /\ HasCorrections(analysis[f])
       THEN LET acc == ApplyAll(content[f], analysis[f].corrections)
            IN /\ fix' = [fix EXCEPT ![f] = acc]
               /\ IF acc.changesCount >= 0
                  THEN /\ pc' = [pc EXCEPT ![f] = "copy"]
                       /\ UNCHANGED <<results, semaphore, released>>
                  ELSE /\ results' = Append(results,
                                       FixedResult(f, analysis[f], FixSuccess(acc)))
                       /\ Finish(f)
       ELSE /\ results' = Append(results, AnalysisResult(f, analysis[f]))
            /\ Finish(f)
            /\ UNCHANGED fix
    /\ UNCHANGED aside
    /\ UNCHANGED outcome
    /\ UNCHANGED <<mainpc, config, saveFailed, dirExists, disk, stateFile, toDecide,
                   filesToProcess, skippedFiles, content, analysis, response, fixedFiles, saves>>

\* checkVTTFile that replaces this.state by a mapping with the entry of
\* its file alone
HashDone_Overwrite(f) ==
    /\ pc[f] = "getFileHash"
    /\ \E fault \in {FALSE} \cup {b \in {TRUE} : MayFault} :
         /\ faults' = faults + (IF fault THEN 1 ELSE 0)
         /\ state' = [n \in {f} |->
                        [hash |-> getFileHash(disk, FilePath(f), fault),
                         lastProcessed |-> 1,
                         hasErrors |-> HasErrorsValue(analysis[f])]]
    /\ IF analysis[f].status = "success" /\ HasCorrections(analysis[f])
       THEN LET acc == ApplyAll(content[f], analysis[f].corrections)
            IN /\ fix' = [fix EXCEPT ![f] = acc]
               /\ IF acc.changesCount > 0
                  THEN /\ pc' = [pc EXCEPT ![f] = "copy"]
                       /\ UNCHANGED <<results, semaphore, released>>
                  ELSE /\ results' = Append(results,
                                       FixedResult(f, analysis[f], FixSuccess(acc)))
                       /\ Finish(f)
       ELSE /\ results' = Append(results, AnalysisResult(f, analysis[f]))
            /\ Finish(f)
            /\ UNCHANGED fix
    /\ UNCHANGED aside
    /\ UNCHANGED outcome
    /\ UNCHANGED <<mainpc, config, saveFailed, dirExists, disk, stateFile, toDecide,
                   filesToProcess, skippedFiles, content, analysis, response, fixedFiles, saves>>

\* getFileHash returns: the state entry is written; then, for a successful
\* analysis with corrections, applyCorrections runs its loop and, when a
\* correction applied, starts the backup copy; otherwise the result is
\* recorded and the pipeline ends.
HashDone(f) ==
    /\ pc[f] = "getFileHash"
    /\ \E fault \in {FALSE} \cup {b \in {TRUE} : MayFault} :
         /\ faults' = faults + (IF fault THEN 1 ELSE 0)
         /\ state' = SetEntry(state, f,
                        [hash |-> getFileHash(disk, FilePath(f), fault),
                         lastProcessed |-> 1,
                         hasErrors |-> HasErrorsValue(analysis[f])])
    /\ IF analysis[f].status = "success" /\ HasCorrections(analysis[f])
       THEN LET acc == ApplyAll(content[f], analysis[f].corrections)
            IN /\ fix' = [fix EXCEPT ![f] = acc]
               /\ IF acc.changesCount > 0
                  THEN /\ pc' = [pc EXCEPT ![f] = "copy"]
                       /\ UNCHANGED <<results, semaphore, released>>
                  ELSE /\ results' = Append(results,
                                       FixedResult(f, analysis[f], FixSuccess(acc)))
                       /\ Finish(f)
       ELSE /\ results' = Append(results, AnalysisResult(f, analysis[f]))
            /\ Finish(f)
            /\ UNCHANGED fix
    /\ UNCHANGED aside
    /\ UNCHANGED outcome
    /\ UNCHANGED <<mainpc, config, saveFailed, dirExists, disk, stateFile, toDecide,
                   filesToProcess, skippedFiles, content, analysis, response, fixedFiles, saves>>

\* a fault inside applyCorrections: it returns success false, checkVTTFile
\* records the result and the pipeline ends
FixFailed(f) ==
    /\ faults' = faults + 1
    /\ results' = Append(results, FixedResult(f, analysis[f], FixFailure))
    /\ Finish(f)

\* applyCorrections without the backup: writeFile is called at once
CopyBegin_Skip(f) ==
    /\ pc[f] = "copy"
    /\ pc' = [pc EXCEPT ![f] = "writeFile"]
    /\ UNCHANGED aside
    /\ UNCHANGED outcome
    /\ UNCHANGED <<mainpc, config, saveFailed, dirExists, disk, stateFile, state, toDecide,
                   filesToProcess, skippedFiles, content, analysis, response, fix, fixedFiles,
                   saves, results, semaphore, released, faults>>

\* fs.copy opens the backup: the backup file is created or truncated, and
\* is filled while the copy runs; a failure to open it leaves everything as
\* it was
CopyBegin(f) ==
    /\ pc[f] = "copy"
    /\ \/ /\ disk' = [disk EXCEPT ![backupPath(FilePath(f))] = <<>>]
          /\ pc' = [pc EXCEPT ![f] = "copying"]
          /\ UNCHANGED <<results, semaphore, released, faults>>
       \/ /\ MayFault
          /\ FixFailed(f)
          /\ UNCHANGED disk
    /\ UNCHANGED aside
    /\ UNCHANGED outcome
    /\ UNCHANGED <<mainpc, config, saveFailed, dirExists, stateFile, state, toDecide,
                   filesToProcess, skippedFiles, content, analysis, response, fix, fixedFiles, saves>>

\* fs.copy returns, with a failure of the copy that is ignored: writeFile
\* is called over a partial backup
CopyEnd_IgnoreFault(f) ==
    /\ pc[f] = "copying"
    /\ \/ /\ disk' = [disk EXCEPT ![backupPath(FilePath(f))] = disk[FilePath(f)]]
          /\ UNCHANGED faults
       \/ /\ faults < MaxFaults
          /\ faults' = faults + 1
          /\ \E part \in PartialWrites(disk[FilePath(f)]) :
               disk' = [disk EXCEPT ![backupPath(FilePath(f))] = part]
    /\ pc' = [pc EXCEPT ![f] = "writeFile"]
    /\ UNCHANGED aside
    /\ UNCHANGED outcome
    /\ UNCHANGED <<mainpc, config, saveFailed, dirExists, stateFile, state, toDecide,
                   filesToProcess, skippedFiles, content, analysis, response, fix, fixedFiles,
                   saves, results, semaphore, released>>

\* fs.copy returns: the backup holds the content of the file and writeFile
\* is called; a failure leaves a part of the content in the backup
CopyEnd(f) ==
    /\ pc[f] = "copying"
    /\ \/ /\ disk' = [disk EXCEPT ![backupPath(FilePath(f))] = disk[FilePath(f)]]
          /\ pc' = [pc EXCEPT ![f] = "writeFile"]
          /\ UNCHANGED <<results, semaphore, released, faults>>
       \/ /\ MayFault
          /\ FixFailed(f)
          /\ \E part \in PartialWrites(disk[FilePath(f)]) :
               disk' = [disk EXCEPT ![backupPath(FilePath(f))] = part]
    /\ UNCHANGED aside
    /\ UNCHANGED outcome
    /\ UNCHANGED <<mainpc, config, saveFailed, dirExists, stateFile, state, toDecide,
                   filesToProcess, skippedFiles, content, analysis, response, fix, fixedFiles, saves>>

\* fs.writeFile opens the file: it is truncated, and is filled while the
\* write runs; a failure to open it leaves it as it was
WriteBegin(f) ==
    /\ pc[f] = "writeFile"
    /\ \/ /\ disk' = [disk EXCEPT ![FilePath(f)] = <<>>]
          /\ pc' = [pc EXCEPT ![f] = "writing"]
          /\ UNCHANGED <<results, semaphore, released, faults>>
       \/ /\ MayFault
          /\ FixFailed(f)
          /\ UNCHANGED disk
    /\ UNCHANGED aside
    /\ UNCHANGED outcome
    /\ UNCHANGED <<mainpc, config, saveFailed, dirExists, stateFile, state, toDecide,
                   filesToProcess, skippedFiles, content, analysis, response, fix, fixedFiles, saves>>

\* fs.writeFile returns: the file holds the corrected content, the file is
\* added to fixedFiles, applyCorrections returns, the result is recorded
\* and the hash is computed again; a failure leaves a part of the new
\* content in the file
WriteEnd(f) ==
    /\ pc[f] = "writing"
    /\ \/ /\ disk' = [disk EXCEPT ![FilePath(f)] = fix[f].modifiedContent]
          /\ fixedFiles' = Append(fixedFiles,
                              [filename |-> f, changesCount |-> fix[f].changesCount,
                               appliedChanges |-> fix[f].appliedChanges,
                               backupPath |-> backupPath(FilePath(f))])
          /\ results' = Append(results, FixedResult(f, analysis[f], FixSuccess(fix[f])))
          /\ pc' = [pc EXCEPT ![f] = "getFileHash2"]
          /\ UNCHANGED <<semaphore, released, faults>>
       \/ /\ MayFault
          /\ FixFailed(f)
          /\ \E part \in PartialWrites(fix[f].modifiedContent) :
               disk' = [disk EXCEPT ![FilePath(f)] = part]
          /\ UNCHANGED fixedFiles
    /\ UNCHANGED aside
    /\ UNCHANGED outcome
    /\ UNCHANGED <<mainpc, config, saveFailed, dirExists, stateFile, state, toDecide,
                   filesToProcess, skippedFiles, content, analysis, response, fix, saves>>

\* the second getFileHash returns: the entry's hash is replaced, hasErrors
\* is cleared and the pipeline ends
Hash2Done(f) ==
    /\ pc[f] = "getFileHash2"
    /\ \E fault \in {FALSE} \cup {b \in {TRUE} : MayFault} :
         /\ faults' = faults + (IF fault THEN 1 ELSE 0)
         /\ state' = [state EXCEPT ![f] =
                        [@ EXCEPT !.hash = getFileHash(disk, FilePath(f), fault),
                                  !.hasErrors = "false"]]
    /\ Finish(f)
    /\ UNCHANGED aside
    /\ UNCHANGED outcome
    /\ UNCHANGED <<mainpc, config, saveFailed, dirExists, disk, stateFile, toDecide,
                   filesToProcess, skippedFiles, content, analysis, response, fix, results,
                   fixedFiles, saves>>

(***************************************************************************)
(* The barrier, saveState and the report.                                  *)
(***************************************************************************)
\* a barrier that resolves with the first pipeline that ends (Promise.race
\* for Promise.all)
Barrier_Any ==
    /\ mainpc = "barrier"
    /\ \E f \in {filesToProcess[i].filename : i \in 1..Len(filesToProcess)} : pc[f] = "done"
    /\ mainpc' = "saveState"
    /\ UNCHANGED aside
    /\ UNCHANGED outcome
    /\ UNCHANGED <<maxConcurrency, apiKey, forceReprocess, dirList, dirExists, disk,
                   stateFile, state, toDecide, filesToProcess, skippedFiles, current,
                   waiting, pc, content, analysis, response, fix, results, fixedFiles, released,
                   faults, saves, saveFailed>>

\* Promise.all resolves when every pipeline's promise has: processVTTFiles
\* returns and init calls saveState
Barrier ==
    /\ mainpc = "barrier"
    /\ \A f \in Dispatched : pc[f] = "done"
    /\ mainpc' = "saveState"
    /\ UNCHANGED aside
    /\ UNCHANGED outcome
    /\ UNCHANGED <<config, saveFailed, dirExists, disk, stateFile, state, toDecide, filesToProcess,
                   skippedFiles, semaphore, pipeline, faults, saves>>

\* saveState is called: writeJson opens the state file, which is truncated
\* and partly written while the write runs; a failure to open it is caught
SaveBegin ==
    /\ mainpc = "saveState"
    /\ saves' = saves + 1
    /\ \/ /\ stateFile' = Corrupt
          /\ mainpc' = "saving"
          /\ UNCHANGED <<faults, saveFailed>>
       \/ /\ MayFault
          /\ faults' = faults + 1
          /\ mainpc' = "report"
          /\ saveFailed' = TRUE
          /\ UNCHANGED stateFile
    /\ UNCHANGED aside
    /\ UNCHANGED outcome
    /\ UNCHANGED <<config, dirExists, disk, state, toDecide, filesToProcess,
                   skippedFiles, semaphore, pipeline>>

\* saveState without its catch: a failing writeJson rejects init, and the
\* catch of main() exits with code 1
SaveEnd_Fatal ==
    /\ mainpc = "saving"
    /\ \/ /\ stateFile' = JsonFile(state)
          /\ mainpc' = "report"
          /\ UNCHANGED <<faults, saveFailed, exitCode>>
       \/ /\ MayFault
          /\ faults' = faults + 1
          /\ saveFailed' = TRUE
          /\ mainpc' = "done"
          /\ exitCode' = 1
          /\ UNCHANGED stateFile
    /\ UNCHANGED aside
    /\ UNCHANGED report
    /\ UNCHANGED <<config, dirExists, disk, state, toDecide, filesToProcess,
                   skippedFiles, semaphore, pipeline, saves>>

\* writeJson returns: the state file holds this.state; a failure is caught
\* and leaves the partial file.  init goes on to generateReport.
SaveEnd ==
    /\ mainpc = "saving"
    /\ \/ /\ stateFile' = JsonFile(state)
          /\ UNCHANGED <<faults, saveFailed>>
       \/ /\ MayFault
          /\ faults' = faults + 1
          /\ saveFailed' = TRUE
          /\ UNCHANGED stateFile
    /\ mainpc' = "report"
    /\ UNCHANGED aside
    /\ UNCHANGED outcome
    /\ UNCHANGED <<config, dirExists, disk, state, toDecide, filesToProcess,
                   skippedFiles, semaphore, pipeline, saves>>

\* generateReport; init returns, main returns and the process exits with
\* code 0
Report ==
    /\ mainpc = "report"
    /\ mainpc' = "done"
    /\ report' = generateReport(results, fixedFiles)
    /\ exitCode' = 0
    /\ UNCHANGED aside
    /\ UNCHANGED <<config, saveFailed, dirExists, disk, stateFile, state, toDecide, filesToProcess,
                   skippedFiles, semaphore, pipeline, faults, saves>>

Next ==
    \/ LoadState
    \/ CheckDir
    \/ ReadDir
    \/ DecideFile
    \/ Acquire
    \/ \E f \in Names : ReadDone(f)
    \/ \E f \in Names : AnalyzeDone(f)
    \/ \E f \in Names : HashDone(f)
    \/ \E f \in Names : CopyBegin(f)
    \/ \E f \in Names : CopyEnd(f)
    \/ \E f \in Names : WriteBegin(f)
    \/ \E f \in Names : WriteEnd(f)
    \/ \E f \in Names : Hash2Done(f)
    \/ Barrier
    \/ SaveBegin
    \/ SaveEnd
    \/ Report

Spec == Init /\ [][Next]_vars

(***************************************************************************)
(* Two runs of the program: a second run, without --force, started after   *)
(* a first run that dispatched files and wrote the state file.  Nothing    *)
(* touches the directory between the runs.                                 *)
(***************************************************************************)
\* the run recorded a successful analysis of f and no failure
ProcessedOK(f) ==
    \E i \in 1..Len(results) :
        /\ results[i].filename = f
        /\ results[i].kind # "error"
        /\ results[i].analysis.status = "success"
        /\ results[i].kind = "fix" => results[i].fixResult.success

\* the run recorded for f an analysis with status error or skipped
Unanalysed(f) ==
    \E i \in 1..Len(results) :
        /\ results[i].filename = f
        /\ results[i].kind = "analysis"
        /\ results[i].analysis.status \in {"error", "skipped"}

\* the run read f and found no cue text in it
Emptied(f) ==
    /\ pc[f] = "done"
    /\ content[f] # <<>>
    /\ Trim(extractTextFromVTT(content[f])) = <<>>

\* main is started again: the constructor and init run from the start on
\* the disk and the state file the first run left
Rerun ==
    /\ run = 1
    /\ mainpc = "done"
    /\ Dispatched # {}
    /\ ~saveFailed /\ stateFile = JsonFile(state)
    /\ run' = 2
    /\ prev' = [ok |-> {f \in Dispatched : ProcessedOK(f)},
                unanalysed |-> {f \in Dispatched : Unanalysed(f)},
                noText |-> {f \in Dispatched : Emptied(f)},
                disk |-> disk,
                data |-> stateFile.data, faults |-> faults]
    /\ mainpc' = "loadState"
    /\ forceReprocess' = FALSE
    /\ state' = <<>>
    /\ toDecide' = <<>>
    /\ filesToProcess' = <<>>
    /\ skippedFiles' = <<>>
    /\ current' = 0
    /\ waiting' = <<>>
    /\ pc' = [n \in Names |-> "idle"]
    /\ content' = [n \in Names |-> <<>>]
    /\ analysis' = [n \in Names |-> NoAnalysis]
    /\ response' = [n \in Names |-> NoResponse]
    /\ stateFile0' = stateFile
    /\ report' = NoReport
    /\ exitCode' = Null
    /\ fix' = [n \in Names |-> ApplyAll(<<>>, <<>>)]
    /\ results' = <<>>
    /\ fixedFiles' = <<>>
    /\ saves' = 0
    /\ saveFailed' = FALSE
    /\ released' = [n \in Names |-> 0]
    /\ UNCHANGED <<maxConcurrency, apiKey, dirExists, dirList, disk, stateFile, faults>>
    /\ UNCHANGED <<loopVars, callVars, decideVars, sideVars>>

NextRuns ==
    \/ Next
    \/ Rerun

SpecRuns == Init /\ [][NextRuns]_vars

(***************************************************************************)
(* The run with the interrupt signal: SIGINT may arrive between any two    *)
(* steps of a run; its handler prints a notice and calls process.exit(0).  *)
(***************************************************************************)
\* the SIGINT handler: the process exits with code 0 at once; the
\* pipelines and the calls in flight are dropped, and a file that is being
\* written stays as the write left it
Interrupt ==
    /\ mainpc \notin {"off", "done", "interrupted"}
    /\ exitCode = Null
    /\ mainpc' = "interrupted"
    /\ exitCode' = 0
    /\ pc' = [n \in Names |-> IF pc[n] \in {"idle", "done"} THEN pc[n] ELSE "killed"]
    /\ UNCHANGED aside
    /\ UNCHANGED report
    /\ UNCHANGED <<config, saveFailed, dirExists, disk, stateFile, state, toDecide,
                   filesToProcess, skippedFiles, semaphore, content, analysis, response,
                   fix, results, fixedFiles, faults, saves, released>>

NextInterrupt ==
    \/ Next
    \/ Interrupt

SpecInterrupt == Init /\ [][NextInterrupt]_vars

\* The run when every I/O call and every analysis call returns, with a
\* result or a fault: the event loop runs the continuation of every call
\* that has returned, so no step that stays possible is put off for ever.
Fairness == WF_vars(Next)

SpecFair == Init /\ [][Next]_vars /\ Fairness

(***************************************************************************)
(* The correction loop of applyCorrections on its own: every content and   *)
(* every list of corrections of the bounds, one iteration per step.        *)
(***************************************************************************)
InitLoop ==
    /\ MainIdle
    /\ CallIdle
    /\ DecideIdle
    /\ PathIdle
    /\ maxConcurrency = 1 /\ current = 0 /\ waiting = <<>>
    /\ loopInput \in [content : StringsUpTo(MaxLen), corrections : ListsUpTo(MaxCorrections)]
    /\ loopAcc = ApplyAll(loopInput.content, <<>>)
    /\ loopRest = loopInput.corrections
    /\ loopResult = NoFixResult
    /\ loopPc = "loop"
    /\ SideIdle

\* one iteration of the for loop
LoopStep ==
    /\ loopPc = "loop"
    /\ loopRest # <<>>
    /\ loopAcc' = ApplyOne(loopAcc, Head(loopRest))
    /\ loopRest' = Tail(loopRest)
    /\ UNCHANGED <<loopInput, loopResult, loopPc, mainVars, semVars, callVars, decideVars, sideVars>>

\* the end of the loop: applyCorrections returns its result
LoopReturn ==
    /\ loopPc = "loop"
    /\ loopRest = <<>>
    /\ loopResult' = FixSuccess(loopAcc)
    /\ loopPc' = "returned"
    /\ UNCHANGED <<loopInput, loopAcc, loopRest, mainVars, semVars, callVars, decideVars, sideVars>>

NextLoop ==
    \/ LoopStep
    \/ LoopReturn

SpecLoop == InitLoop /\ [][NextLoop]_vars

(***************************************************************************)
(* The Semaphore on its own: callers that call acquire in any order and    *)
(* call the release token they were given once, at any later time.         *)
(***************************************************************************)
InitSem ==
    /\ MainIdle
    /\ LoopIdle
    /\ CallIdle
    /\ DecideIdle
    /\ PathIdle
    /\ maxConcurrency \in 1..MaxLimit
    /\ current = 0
    /\ waiting = <<>>
    /\ SideIdle

\* a caller calls acquire
CallAcquire(c) ==
    /\ caller[c] = "idle"
    /\ LET a == acquire(maxConcurrency, current, waiting, c)
       IN /\ current' = a.current
          /\ waiting' = a.waiting
          /\ caller' = [caller EXCEPT ![c] = IF c \in a.granted THEN "holding" ELSE "waiting"]
          /\ grantOrder' = (IF c \in a.granted THEN Append(grantOrder, c) ELSE grantOrder)
    /\ callOrder' = Append(callOrder, c)
    /\ UNCHANGED <<maxConcurrency, releaseCalls, wakeups, mainVars, loopVars, decideVars, sideVars>>

\* a caller that holds a permit calls its release token
CallRelease(c) ==
    /\ caller[c] = "holding"
    /\ LET r == release(current, waiting)
       IN /\ current' = r.current
          /\ waiting' = r.waiting
          /\ caller' = [d \in Callers |-> IF d = c THEN "released"
                                          ELSE IF d \in r.granted THEN "holding"
                                          ELSE caller[d]]
          /\ grantOrder' = (IF r.granted = {} THEN grantOrder
                            ELSE Append(grantOrder, CHOOSE d \in r.granted : TRUE))
          /\ wakeups' = wakeups + Cardinality(r.granted)
    /\ releaseCalls' = releaseCalls + 1
    /\ UNCHANGED <<maxConcurrency, callOrder, mainVars, loopVars, decideVars, sideVars>>

NextSem ==
    \/ \E c \in Callers : CallAcquire(c)
    \/ \E c \in Callers : CallRelease(c)

SpecSem == InitSem /\ [][NextSem]_vars

(***************************************************************************)
(* shouldProcessFile on its own: every force flag, stored entry, content   *)
(* and fault of the bounds, for the first file of the directory.           *)
(***************************************************************************)
InitDecide ==
    /\ MainIdle
    /\ LoopIdle
    /\ CallIdle
    /\ maxConcurrency = 1 /\ current = 0 /\ waiting = <<>>
    /\ PathIdle
    /\ decideInput \in DecideInputs
    /\ ~(decideInput.statFault /\ decideInput.hashFault)
    /\ decision = NoDecision
    /\ SideIdle

\* this.state and the disk of the call
StateOf(in) == IF in.hasEntry THEN [n \in {FileName(1)} |-> in.entry] ELSE <<>>
DiskOf(in) == [p \in Paths |-> IF p = FilePath(FileName(1)) THEN in.content ELSE NoFile]

\* the call returns
Decide ==
    /\ decision = NoDecision
    /\ decision' = shouldProcessFile(StateOf(decideInput), DiskOf(decideInput),
                                     decideInput.force, FileName(1),
                                     decideInput.statFault, decideInput.hashFault)
    /\ UNCHANGED <<decideInput, pathInput, pathOutput, mainVars, semVars, loopVars, callVars, sideVars>>

NextDecide == Decide

SpecDecide == InitDecide /\ [][NextDecide]_vars

(***************************************************************************)
(* The backup path of applyCorrections on its own, for every eligible      *)
(* path of the bounds.                                                     *)
(***************************************************************************)
InitPath ==
    /\ MainIdle
    /\ LoopIdle
    /\ CallIdle
    /\ DecideIdle
    /\ maxConcurrency = 1 /\ current = 0 /\ waiting = <<>>
    /\ pathInput \in EligiblePaths
    /\ pathOutput = <<>>
    /\ SideIdle

\* const backupPath = filePath.replace('.vtt', '.vtt.backup')
ComputeBackupPath ==
    /\ pathOutput = <<>>
    /\ pathOutput' = backupPath(pathInput)
    /\ UNCHANGED <<pathInput, decideInput, decision, mainVars, semVars, loopVars, callVars, sideVars>>

NextPath == ComputeBackupPath

SpecPath == InitPath /\ [][NextPath]_vars

(***************************************************************************)
(* The Semaphore with callers that may call their release token a second   *)
(* time: the token is the closure () => this.release(), which runs         *)
(* release on every call.                                                  *)
(***************************************************************************)
\* a caller that has called its release token calls it once more
CallReleaseAgain(c) ==
    /\ caller[c] = "released"
    /\ LET r == release(current, waiting)
       IN /\ current' = r.current
          /\ waiting' = r.waiting
          /\ caller' = [d \in Callers |-> IF d = c THEN "releasedTwice"
                                          ELSE IF d \in r.granted THEN "holding"
                                          ELSE caller[d]]
          /\ grantOrder' = (IF r.granted = {} THEN grantOrder
                            ELSE Append(grantOrder, CHOOSE d \in r.granted : TRUE))
          /\ wakeups' = wakeups + Cardinality(r.granted)
    /\ releaseCalls' = releaseCalls + 1
    /\ UNCHANGED <<maxConcurrency, callOrder, mainVars, loopVars, decideVars, sideVars>>

NextToken ==
    \/ \E c \in Callers : CallAcquire(c)
    \/ \E c \in Callers : CallRelease(c)
    \/ \E c \in Callers : CallReleaseAgain(c)

SpecToken == InitSem /\ [][NextToken]_vars

(***************************************************************************)
(* Properties.                                                             *)
(***************************************************************************)
\* the positions at which a pipeline holds a permit
Running == {"readFile", "analyze", "getFileHash", "copy", "copying",
            "writeFile", "writing", "getFileHash2"}
InFlight == {f \in Names : pc[f] \in Running}

\* the barrier has been passed
AfterBarrier == mainpc \in {"saveState", "saving", "report", "done"}

\* no pipeline holds or awaits a permit
Quiescent ==
    /\ \A f \in Names : pc[f] \in {"idle", "done"}
    /\ \A f \in Dispatched : pc[f] = "done"
    /\ current = 0
    /\ waiting = <<>>

\* pat occurs in s, and the position of its leftmost occurrence
Occurs(s, pat) ==
    \E i \in 1..(Len(s) + 1) : i + Len(pat) - 1 <= Len(s) /\ SubSeq(s, i, i + Len(pat) - 1) = pat
Leftmost(s, pat) ==
    CHOOSE i \in 1..(Len(s) + 1) :
        /\ i + Len(pat) - 1 <= Len(s) /\ SubSeq(s, i, i + Len(pat) - 1) = pat
        /\ \A j \in 1..(i - 1) : SubSeq(s, j, j + Len(pat) - 1) # pat

\* s with the leftmost occurrence of pat replaced by the literal text new
LiteralReplace(s, pat, new) ==
    SubSeq(s, 1, Leftmost(s, pat) - 1) \o new
    \o SubSeq(s, Leftmost(s, pat) + Len(pat), Len(s))

\* the content with the applied corrections replaced in, one after the other
RECURSIVE Corrected(_, _)
Corrected(c, applied) ==
    IF applied = <<>> THEN c
    ELSE Corrected(LiteralReplace(c, Head(applied).original, Head(applied).corrected),
                   Tail(applied))

IsPrefix(a, b) == Len(a) <= Len(b) /\ SubSeq(b, 1, Len(a)) = a

\* C1: the number of permits acquired and not released never exceeds the
\* configured limit, and neither does the number of pipelines (or of
\* analysis calls) in flight, whatever the limit and the number of files.
C1_ConcurrencyBound ==
    /\ current <= maxConcurrency
    /\ Cardinality(InFlight) <= current
    /\ Cardinality({f \in Names : pc[f] = "analyze"}) <= maxConcurrency

\* more files than permits: the limit is reached, a file waits, and an
\* analysis call is in flight
C1_Witness ==
    /\ current = maxConcurrency
    /\ waiting # <<>>
    /\ \E f \in Names : pc[f] = "analyze"

\* C2: saveState is called once, when every dispatched pipeline has ended
\* and released its permit, and before generateReport; the state file is
\* written at no other point of the run.
C2_SaveOnceAfterBarrier ==
    [][/\ (saves' # saves => (saves = 0 /\ saves' = 1 /\ Quiescent))
       /\ (stateFile' # stateFile =>
             (saves' = 1 /\ Quiescent /\ mainpc \in {"saveState", "saving"}))
       /\ ((mainpc = "report" /\ mainpc' = "done") => saves = 1)]_vars

\* two files were processed and the state was saved, once
C2_Witness ==
    /\ mainpc = "report"
    /\ saves = 1
    /\ Cardinality(Dispatched) = 2
    /\ stateFile = JsonFile(state)
    /\ DOMAIN state = Dispatched

\* C3: when the state has been saved, the hash stored for every file that
\* received an entry in the run is the digest of the file's content on disk.
C3_SavedHashMatchesDisk ==
    (mainpc = "report" /\ stateFile = JsonFile(state)) =>
        \A f \in Dispatched :
            (f \in DOMAIN state /\ analysis[f].status # "none") =>
                stateFile.data[f].hash = md5(disk[FilePath(f)])

\* C4: when applyCorrections has returned with changesCount > 0, the backup
\* holds the content the file had before the corrections and the file holds
\* the corrected content.
C4_BackupAndCorrectedContent ==
    \A i \in 1..Len(results) :
        (results[i].kind = "fix" /\ results[i].fixResult.changesCount > 0) =>
            LET f == results[i].filename
            IN /\ disk[backupPath(FilePath(f))] = content[f]
               /\ disk[FilePath(f)] = Corrected(content[f], results[i].fixResult.appliedChanges)
               /\ disk[FilePath(f)] # content[f]

\* corrections were applied to the first file, whose backup path held an
\* older backup
C4_Witness ==
    \E i \in 1..Len(results) :
        /\ results[i].kind = "fix"
        /\ results[i].fixResult.changesCount > 0
        /\ results[i].filename = FileName(1)
        /\ disk[backupPath(FilePath(FileName(1)))] # StaleBackup

\* C5: in every state, a file whose pipeline has read it either still holds
\* the content read or has a complete backup of that content.
C5_NoOverwriteBeforeBackup ==
    \A f \in Names :
        content[f] # <<>> =>
            \/ disk[FilePath(f)] = content[f]
            \/ disk[backupPath(FilePath(f))] = content[f]

\* a write that failed part-way: the file holds neither the content read nor
\* the corrected content
C5_Witness ==
    \E f \in Names :
        /\ pc[f] = "done"
        /\ content[f] # <<>>
        /\ disk[FilePath(f)] # content[f]
        /\ disk[FilePath(f)] # fix[f].modifiedContent

\* C6: a correction whose original occurs in the working copy yields the
\* working copy with the leftmost occurrence replaced by the literal text
\* of corrected, whatever corrected contains.
C6_LiteralFirstOccurrence ==
    [][(/\ loopPc = "loop"
        /\ loopRest # <<>>
        /\ Occurs(loopAcc.modifiedContent, Head(loopRest).original))
       => loopAcc'.modifiedContent =
             LiteralReplace(loopAcc.modifiedContent, Head(loopRest).original,
                            Head(loopRest).corrected)]_vars

\* C7: a correction whose original does not occur in the working copy
\* changes neither the working copy nor changesCount nor appliedChanges, and
\* the loop goes on with the next correction.
C7_MissingSpanSkipped ==
    [][(/\ loopPc = "loop"
        /\ loopRest # <<>>
        /\ ~Occurs(loopAcc.modifiedContent, Head(loopRest).original))
       => (/\ loopAcc' = loopAcc
           /\ loopRest' = Tail(loopRest)
           /\ loopPc' = "loop")]_vars

\* the first of two corrections was skipped and the second applied
C7_Witness ==
    /\ loopPc = "returned"
    /\ Len(loopInput.corrections) = 2
    /\ ~Occurs(loopInput.content, loopInput.corrections[1].original)
    /\ loopResult.changesCount = 1
    /\ loopResult.appliedChanges = <<loopInput.corrections[2]>>

\* a result of f that is not an error result and carries a successful
\* analysis
RecordedSuccessful(f) ==
    \E i \in 1..Len(results) :
        /\ results[i].filename = f
        /\ results[i].kind # "error"
        /\ results[i].analysis.status = "success"

\* a result of f that reports a failure: a failed read, a failed analysis,
\* or a failed correction
RecordedFailed(f) ==
    \E i \in 1..Len(results) :
        /\ results[i].filename = f
        /\ \/ results[i].kind = "error"
           \/ results[i].analysis.status = "error"
           \/ (results[i].kind = "fix" /\ ~results[i].fixResult.success)

\* C8: once the barrier is passed every dispatched file has ended, and
\* every file whose own analysis succeeded is recorded as successful,
\* whatever failed for the other files.
C8_Isolation ==
    AfterBarrier =>
        \A f \in Dispatched :
            /\ pc[f] = "done"
            /\ analysis[f].status = "success" => RecordedSuccessful(f)

\* one file failed and another, dispatched in the same run, is recorded as
\* successful
C8_Witness ==
    /\ AfterBarrier
    /\ \E a, b \in Dispatched :
         /\ a # b
         /\ RecordedFailed(a) /\ ~RecordedSuccessful(a)
         /\ RecordedSuccessful(b) /\ ~RecordedFailed(b)

\* C9: a pipeline has called its release token exactly once when it has
\* ended and not before; once the barrier is passed no permit is held and
\* no caller is queued.
C9_ReleasedOnEveryPath ==
    /\ \A f \in Names : released[f] = (IF pc[f] = "done" THEN 1 ELSE 0)
    /\ current = Cardinality(InFlight)
    /\ AfterBarrier => (current = 0 /\ waiting = <<>>)

\* the barrier is passed after one pipeline ended on a file without text and
\* another on a failed read
C9_Witness ==
    /\ AfterBarrier
    /\ \E a, b \in Dispatched :
         /\ content[a] # <<>> /\ analysis[a].status = "none" /\ released[a] = 1
         /\ \E i \in 1..Len(results) : results[i].filename = b /\ results[i].kind = "error"
         /\ released[b] = 1

\* C10: permits are granted in the order of the acquire calls: the callers
\* granted so far are the first callers, the queue holds the others in the
\* order they called, and a release runs at most one waiter.
C10_FIFO ==
    /\ IsPrefix(grantOrder, callOrder)
    /\ waiting = SubSeq(callOrder, Len(grantOrder) + 1, Len(callOrder))
    /\ wakeups <= releaseCalls
    /\ \A c \in Callers : caller[c] = "waiting" <=> \E i \in 1..Len(waiting) : waiting[i] = c

\* two waiters have been woken by releases while a later caller is queued
C10_Witness ==
    /\ wakeups >= 2
    /\ waiting # <<>>
    /\ Len(callOrder) = MaxCallers
    /\ callOrder # [i \in 1..MaxCallers |-> i]

\* the callers that hold a permit: their acquire resolved and they have not
\* called their release token
Holders == {c \in Callers : caller[c] = "holding"}

\* C11: a release token releases its permit once: however often the callers
\* call their tokens, the permit counter is the number of permits held, is
\* never negative, and no more callers than the limit hold a permit.
C11_TokenReleasesOnce ==
    /\ current >= 0
    /\ current = Cardinality(Holders)
    /\ Cardinality(Holders) <= maxConcurrency

\* C12 as stated: a run that dispatched files ends with the state
\* persisted, whatever faulted.
C12_StatePersisted ==
    (mainpc = "done" /\ Dispatched # {}) => stateFile = JsonFile(state)

\* C12: when every call returns, every queued file gets a permit, every
\* dispatched file ends its pipeline and calls its token, and the run
\* passes the barrier, runs saveState once and ends: the state file then
\* holds the state unless the write of the state file itself faulted.
C12_NoStarvation ==
    /\ \A f \in Names : (pc[f] = "waiting") ~> (pc[f] \in Running)
    /\ \A f \in Names :
         (mainpc = "dispatch" /\ f \in Dispatched) ~> (pc[f] = "done" /\ released[f] = 1)
    /\ (mainpc = "dispatch") ~>
         (/\ mainpc = "done"
          /\ AfterBarrier /\ Quiescent
          /\ saves = 1
          /\ (saveFailed \/ stateFile = JsonFile(state)))

\* one permit for two files: the second file was queued, both have ended
\* and the state is saved
C12_Witness ==
    /\ mainpc = "done"
    /\ maxConcurrency = 1
    /\ Cardinality(Dispatched) = 2
    /\ \A f \in Dispatched : pc[f] = "done" /\ released[f] = 1
    /\ ~saveFailed /\ stateFile = JsonFile(state)

\* the decision C13 states for a call without I/O error
DecisionTable(in) ==
    IF in.force THEN [should |-> TRUE, reason |-> "forced reprocessing"]
    ELSE IF ~in.hasEntry THEN [should |-> TRUE, reason |-> "new file"]
    ELSE IF in.entry.hash # md5(in.content) THEN [should |-> TRUE, reason |-> "file modified"]
    ELSE [should |-> FALSE, reason |-> "already processed and unchanged"]

\* C13: without I/O error shouldProcessFile returns FORCED when the force
\* flag is set, else NEW when the state has no entry, else MODIFIED when the
\* stored hash differs from the hash of the content, else UNCHANGED; the
\* entry's lastProcessed and hasErrors play no part.
C13_DecisionTable ==
    (decision # NoDecision /\ ~decideInput.statFault /\ ~decideInput.hashFault) =>
        /\ decision = DecisionTable(decideInput)
        /\ decision.should =
             (\/ decideInput.force
              \/ ~decideInput.hasEntry
              \/ decideInput.entry.hash # md5(decideInput.content))

\* an unchanged file whose entry records errors is not processed
C13_Witness ==
    /\ decision = [should |-> FALSE, reason |-> "already processed and unchanged"]
    /\ decideInput.hasEntry /\ decideInput.entry.hasErrors = "true"
    /\ decideInput.entry.lastProcessed = 1
    /\ ~decideInput.statFault /\ ~decideInput.hashFault

\* C14: a call in which fs.stat or the read of the file fails decides to
\* process the file, whatever the stored entry holds.
C14_ErrorMeansProcess ==
    (decision # NoDecision /\ (decideInput.statFault \/ decideInput.hashFault)) =>
        decision.should

\* f was decided UNCHANGED in this run
SkippedUnchanged(f) ==
    \E i \in 1..Len(skippedFiles) :
        skippedFiles[i] = [filename |-> f, reason |-> "already processed and unchanged"]

\* in a second run, a file skipped as unchanged has no pipeline, no analysis
\* call and no result, and its content, backup and entry are as the first
\* run left them
LeftAlone(f) ==
    /\ f \notin Dispatched
    /\ pc[f] = "idle" /\ released[f] = 0
    /\ analysis[f] = NoAnalysis
    /\ \A i \in 1..Len(results) : results[i].filename # f
    /\ disk[FilePath(f)] = prev.disk[FilePath(f)]
    /\ disk[backupPath(FilePath(f))] = prev.disk[backupPath(FilePath(f))]
    /\ state[f] = prev.data[f]
    /\ stateFile.parses => stateFile.data[f] = prev.data[f]

\* C15: in a second run without --force, started after a run that
\* processed a file with success and saved the state, the decision for the
\* file, made without I/O error, is UNCHANGED, and the file is then left
\* alone for the rest of the run.
C15_IdempotentSkip ==
    [][/\ (/\ run = 2 /\ mainpc = "decide" /\ toDecide # <<>>
           /\ Head(toDecide) \in prev.ok
           /\ toDecide' = Tail(toDecide) /\ faults' = faults)
          => skippedFiles' =
               Append(skippedFiles, [filename |-> Head(toDecide),
                                     reason |-> "already processed and unchanged"])
       /\ (run = 2 /\ run' = 2) =>
             \A f \in prev.ok : SkippedUnchanged(f) => (LeftAlone(f))']_vars

\* the names of filesToProcess, in order
DispatchList == [i \in 1..Len(filesToProcess) |-> filesToProcess[i].filename]

\* C16: with --force, once the listing is read and the decisions are made,
\* the files to process are the .vtt files of the directory, each once and
\* for the reason forced, none is skipped, and each gets one pipeline, which
\* has ended when the barrier is passed.  (Nothing is dispatched when the
\* directory is missing or readdir fails.)
C16_ForceDispatchesAll ==
    forceReprocess =>
        /\ skippedFiles = <<>>
        /\ \A i \in 1..Len(filesToProcess) : filesToProcess[i].reason = "forced reprocessing"
        /\ mainpc \in {"dispatch", "barrier"} => DispatchList = vttFilesOf(dirList)
        /\ AfterBarrier =>
              \/ DispatchList = vttFilesOf(dirList)
              \/ DispatchList = <<>> /\ faults > 0 /\ \A f \in Names : pc[f] = "idle"
        /\ \A f \in Names :
              /\ f \notin Dispatched => pc[f] = "idle"
              /\ released[f] <= 1
              /\ (AfterBarrier /\ f \in Dispatched) => (pc[f] = "done" /\ released[f] = 1)

\* with --force, a file whose stored hash equals the hash of its content
\* and a file without entry are both dispatched
C16_Witness ==
    /\ forceReprocess
    /\ mainpc = "barrier"
    /\ Len(filesToProcess) = 2
    /\ DOMAIN state = {FileName(1)}
    /\ pc[FileName(1)] = "readFile"
    /\ state[FileName(1)].hash = md5(disk[FilePath(FileName(1))])

\* a is b with some elements left out
RECURSIVE IsSubsequence(_, _)
IsSubsequence(a, b) ==
    IF a = <<>> THEN TRUE
    ELSE IF b = <<>> THEN FALSE
    ELSE IF Head(a) = Head(b) THEN IsSubsequence(Tail(a), Tail(b))
    ELSE IsSubsequence(a, Tail(b))

\* the corrections the loop has gone through
LoopDone == SubSeq(loopInput.corrections, 1, Len(loopInput.corrections) - Len(loopRest))

\* C17: every iteration appends its correction to appliedChanges exactly
\* when the correction's original occurs in the working copy at that turn;
\* changesCount is the length of appliedChanges, at most the number of
\* corrections gone through, and the value returned reports both.
C17_OutcomeReportsApplied ==
    [][/\ (loopPc = "loop" /\ loopRest # <<>>) =>
             loopAcc'.appliedChanges =
                 (IF Occurs(loopAcc.modifiedContent, Head(loopRest).original)
                  THEN Append(loopAcc.appliedChanges, Head(loopRest))
                  ELSE loopAcc.appliedChanges)
       /\ loopAcc'.changesCount = Len(loopAcc'.appliedChanges)
       /\ loopAcc'.changesCount <= Len(LoopDone')
       /\ IsSubsequence(loopAcc'.appliedChanges, LoopDone')
       /\ loopPc' = "returned" =>
             /\ loopResult'.success
             /\ loopResult'.appliedChanges = loopAcc.appliedChanges
             /\ loopResult'.changesCount = Len(loopAcc.appliedChanges)
             /\ loopResult'.changesCount <= Len(loopInput.corrections)]_vars

\* every correction but the last, whose original does not occur, was applied
C17_Witness ==
    /\ loopPc = "returned"
    /\ Len(loopInput.corrections) = MaxCorrections
    /\ loopResult.changesCount = MaxCorrections - 1
    /\ loopResult.appliedChanges # <<>>
    /\ loopResult.appliedChanges[1] = loopInput.corrections[1]
    /\ ~Occurs(loopInput.content, loopInput.corrections[MaxCorrections].original)

\* the left-to-right fold over the corrections: a correction whose original
\* occurs in the text so far replaces its leftmost occurrence by the
\* corrected text, the others are passed over
RECURSIVE LiteralFold(_, _)
LiteralFold(c, corrections) ==
    IF corrections = <<>> THEN c
    ELSE LET h == Head(corrections)
         IN LiteralFold(IF Occurs(c, h.original)
                        THEN LiteralReplace(c, h.original, h.corrected) ELSE c,
                        Tail(corrections))

\* C18: the corrections are applied in the order supplied, each against
\* the working copy the earlier ones produced: the final content is the
\* left-to-right fold of first-occurrence replacements over the list.
C18_OrderedFold ==
    loopPc = "returned" =>
        loopAcc.modifiedContent = LiteralFold(loopInput.content, loopInput.corrections)

\* C19: a step changes neither the file nor the backup of a file whose
\* applyCorrections loop has applied nothing (it has not run, or it ran and
\* changesCount is 0), and fixedFiles has no entry for such a file.
C19_NothingWrittenWithoutChange ==
    [][\A f \in Names :
          fix'[f].changesCount = 0 =>
              /\ disk'[FilePath(f)] = disk[FilePath(f)]
              /\ disk'[backupPath(FilePath(f))] = disk[backupPath(FilePath(f))]
              /\ \A i \in 1..Len(fixedFiles') : fixedFiles'[i].filename # f]_vars

\* the barrier is passed with a file whose only correction was not found,
\* a file whose analysis failed and an older backup still in place
C19_Witness ==
    /\ AfterBarrier
    /\ disk[backupPath(FilePath(FileName(1)))] = StaleBackup
    /\ \E i \in 1..Len(results) :
          /\ results[i].kind = "fix"
          /\ results[i].fixResult.success /\ results[i].fixResult.changesCount = 0
          /\ disk[FilePath(results[i].filename)] = content[results[i].filename]
    /\ \E f \in Dispatched : analysis[f].status = "error" /\ disk[FilePath(f)] = content[f]

\* C20: the backup path of an eligible path is the path with .backup
\* appended.
C20_BackupPathAppends ==
    pathOutput # <<>> => pathOutput = pathInput \o <<".backup">>

\* the results recorded for f
ResultsOf(f) == {i \in 1..Len(results) : results[i].filename = f}

\* C21: once the barrier is passed, this.results holds one result for
\* every dispatched file and none for any other file.
C21_OneResultPerDispatched ==
    AfterBarrier =>
        /\ \A f \in Dispatched : Cardinality(ResultsOf(f)) = 1
        /\ \A i \in 1..Len(results) : results[i].filename \in Dispatched

\* f was read and its extracted cue text is empty or whitespace-only
NoText(f) == content[f] # <<>> /\ Trim(extractTextFromVTT(content[f])) = <<>>

\* C22: from the step that reads it on, a file without cue text has ended
\* its pipeline: no analysis call is made for it and no response received,
\* no correction is applied, and no step changes the file or its backup.
C22_NoContentStops ==
    [][\A f \in Names :
          NoText(f)' =>
              /\ pc'[f] = "done"
              /\ analysis'[f] = NoAnalysis /\ response'[f] = NoResponse
              /\ fix'[f].changesCount = 0
              /\ \A i \in 1..Len(fixedFiles') : fixedFiles'[i].filename # f
              /\ disk'[FilePath(f)] = content'[f]
              /\ disk'[FilePath(f)] = disk[FilePath(f)]
              /\ disk'[backupPath(FilePath(f))] = disk[backupPath(FilePath(f))]]_vars

\* with an API key set, a file without cue text has ended while the other
\* file of the run was analyzed and corrected
C22_Witness ==
    /\ apiKey
    /\ AfterBarrier
    /\ \E f, g \in Dispatched :
         /\ NoText(f) /\ pc[f] = "done" /\ analysis[f] = NoAnalysis
         /\ analysis[g].status = "success" /\ fix[g].changesCount > 0

\* the results of f are all the result of a skipped analysis
ReportedSkipped(f) ==
    /\ Cardinality(ResultsOf(f)) = 1
    /\ \A i \in ResultsOf(f) :
         /\ results[i] = AnalysisResult(f, Skipped)
         /\ Classify(results[i]) = "skipped"

\* C23: without API key no request is made and every analysis call
\* returns skipped; no step writes a file or a backup, no correction is
\* applied; every dispatched file ends its pipeline, and every file whose
\* text was given to the analysis is recorded once, as skipped; the report
\* counts no success and counts as errors only the files that could not be
\* read; the process exits with code 0.
C23_NoKeySkips ==
    [][~apiKey =>
          /\ disk' = disk
          /\ fixedFiles' = <<>>
          /\ \A f \in Names :
               /\ response'[f] = NoResponse
               /\ analysis'[f] \in {NoAnalysis, Skipped}
               /\ pc'[f] \notin {"copy", "copying", "writeFile", "writing", "getFileHash2"}
               /\ (pc'[f] = "done" /\ analysis'[f] = Skipped) => (ReportedSkipped(f))'
          /\ AfterBarrier' => \A f \in Dispatched' : pc'[f] = "done"
          /\ report'.printed =>
               /\ report'.successCount = 0
               /\ report'.errorCount =
                    Cardinality({i \in 1..Len(results') : results'[i].kind = "error"})
               /\ report'.filesCorrected = 0 /\ report'.totalCorrections = 0
          /\ (mainpc' = "done" /\ dirList # <<>>) => (report'.printed /\ exitCode' = 0)]_vars

\* without API key two files were dispatched and both are reported as
\* skipped: the report counts no success and no error
C23_Witness ==
    /\ ~apiKey
    /\ mainpc = "done" /\ exitCode = 0
    /\ Cardinality(Dispatched) = 2
    /\ \A f \in Dispatched : ReportedSkipped(f)
    /\ report.summary /\ report.total = 2
    /\ report.successCount = 0 /\ report.errorCount = 0

\* the result of a response that does not parse: status success, the raw
\* response as analysis text, no corrections
RawResult ==
    [status |-> "success", text |-> "raw", hasCorrections |-> TRUE, corrections |-> <<>>]

\* C24: when the response received for a file does not parse, the
\* analysis result is status success with the raw response as analysis and
\* an empty corrections list; no correction is applied to the file, no step
\* changes the file or its backup, the pipeline ends with the result
\* recorded as a success, and the run passes the barrier.
C24_UnparseableIsRawSuccess ==
    [][\A f \in Names :
          response'[f].kind = "unparseable" =>
              /\ analysis'[f] = RawResult
              /\ pc'[f] \in {"getFileHash", "done"}
              /\ fix'[f].changesCount = 0
              /\ \A i \in 1..Len(fixedFiles') : fixedFiles'[i].filename # f
              /\ disk'[FilePath(f)] = disk[FilePath(f)]
              /\ disk'[backupPath(FilePath(f))] = disk[backupPath(FilePath(f))]
              /\ pc'[f] = "done" =>
                   /\ Cardinality((ResultsOf(f))') = 1
                   /\ \A i \in (ResultsOf(f))' :
                        /\ results'[i] = AnalysisResult(f, RawResult)
                        /\ Classify(results'[i]) = "success"
              /\ AfterBarrier' => \A g \in Dispatched' : pc'[g] = "done"]_vars

\* the response for one file did not parse and its result is recorded,
\* while the other file of the run was corrected
C24_Witness ==
    /\ mainpc = "done" /\ exitCode = 0
    /\ \E f, g \in Dispatched :
         /\ response[f].kind = "unparseable"
         /\ \E i \in ResultsOf(f) : results[i] = AnalysisResult(f, RawResult)
         /\ disk[FilePath(f)] = content[f]
         /\ fix[g].changesCount > 0 /\ disk[FilePath(g)] # content[g]
    /\ report.successCount = 2

\* the results of the files on which a read, the backup copy or the write of
\* the corrected content failed
FailedIO ==
    {i \in 1..Len(results) :
        \/ results[i].kind = "error"
        \/ (results[i].kind = "fix" /\ ~results[i].fixResult.success)}

\* C25: in the report, every file on which the read, the backup copy or the
\* write of the corrected content failed is counted as an error and not as
\* a success.
C25_IOFailureCountedAsError ==
    report.summary =>
        /\ report.errorCount >= Cardinality(FailedIO)
        /\ report.successCount <= Len(results) - Cardinality(FailedIO)

\* the state file the run found is missing, or cannot be read or parsed
Unloadable == ~stateFile0.exists \/ ~stateFile0.parses

\* C26: when the state file is missing or cannot be read or parsed,
\* loadState leaves this.state empty and the run goes on: no file is
\* skipped, every .vtt file of the listing is dispatched, each decided NEW
\* (FORCED under --force, which does not look at the state; ERROR when the
\* check of the file faults), and the process does not exit with an error.
\* (Nothing is dispatched when readdir fails.)
C26_LoadStateFailsSoft ==
    Unloadable =>
        /\ mainpc \in {"pathExists", "readdir", "decide"} => state = <<>>
        /\ skippedFiles = <<>>
        /\ \A i \in 1..Len(filesToProcess) :
             \/ filesToProcess[i].reason =
                  (IF forceReprocess THEN "forced reprocessing" ELSE "new file")
             \/ filesToProcess[i].reason = "error checking file state" /\ faults > 0
        /\ mainpc \in {"dispatch", "barrier"} => DispatchList = vttFilesOf(dirList)
        /\ (AfterBarrier /\ dirList # <<>>) =>
              \/ DispatchList = vttFilesOf(dirList)
              \/ DispatchList = <<>> /\ faults > 0
        /\ (mainpc = "done" /\ dirList # <<>>) => exitCode = 0

\* the state file did not parse and, without --force, both files of the
\* directory are dispatched as new files
C26_Witness ==
    /\ stateFile0 = Corrupt
    /\ ~forceReprocess
    /\ mainpc = "barrier"
    /\ Len(filesToProcess) = 2
    /\ \A i \in 1..Len(filesToProcess) : filesToProcess[i].reason = "new file"

\* C27: the process exits with code 1 only when the directory was missing
\* and could not be created, before anything was processed; a run whose
\* directory exists ends with exit code 0 whatever failed for the files, the
\* analyses or the state file; and when every call returns, a run that has
\* found its directory does end, with exit code 0.
C27_ExitCode ==
    /\ [](exitCode \in {Null, 0, 1})
    /\ [](exitCode = Null <=> mainpc # "done")
    /\ [](exitCode = 1 =>
            (dirList = <<>> /\ ~dirExists /\ faults > 0 /\ results = <<>> /\ saves = 0))
    /\ []((mainpc = "done" /\ dirExists) => exitCode = 0)
    /\ (mainpc = "readdir") ~> (mainpc = "done" /\ exitCode = 0)

\* the run has ended with exit code 0 after a failed analysis and a state
\* file that could not be written
C27_Witness ==
    /\ mainpc = "done" /\ exitCode = 0
    /\ saveFailed
    /\ \E i \in 1..Len(results) : results[i].analysis.status = "error"
    /\ report.errorCount > 0

\* the directory exists and holds no .vtt file
NoEligible == dirList # <<>> /\ vttFilesOf(dirList) = <<>>

C29_InterruptKeepsStateFile ==
    mainpc = "interrupted" =>
        /\ exitCode = 0
        /\ \/ stateFile = stateFile0
           \/ stateFile.exists /\ stateFile.parses

\* the positions of a pipeline inside the correction step: the backup copy
\* and the write of the corrected content lie ahead or are under way
Correcting == {"copy", "copying", "writeFile", "writing"}

\* C30: a step that writes or changes the state entry of a file leaves the
\* file's pipeline past its correction step: the entry is never written
\* before or during the corrections.
C30_RecordAfterCorrections ==
    [][\A f \in Names :
          (f \in DOMAIN state' /\ (f \notin DOMAIN state \/ state'[f] # state[f])) =>
              pc'[f] \notin Correcting]_vars

\* the entry of g in a state mapping differs between st and st2
EntryChanged(st, st2, g) ==
    \/ (g \in DOMAIN st) # (g \in DOMAIN st2)
    \/ g \in DOMAIN st /\ g \in DOMAIN st2 /\ st[g] # st2[g]

\* C31: once the state is loaded, a step changes the state entry of a file
\* only if it is a step of that file's own pipeline, the new entry is
\* computed from that file's content and analysis alone, and no entry is
\* ever removed: the entries do not depend on how the pipelines interleave,
\* and the entries of files that are not dispatched stay as loaded.
C31_OwnEntryOnly ==
    [][mainpc # "loadState" =>
         \A g \in Names \cup DOMAIN state \cup DOMAIN state' :
             EntryChanged(state, state', g) =>
                 /\ g \in Names
                 /\ g \in DOMAIN state'
                 /\ pc[g] \in {"getFileHash", "getFileHash2"}
                 /\ pc'[g] # pc[g]
                 /\ state'[g].hash \in {md5(disk'[FilePath(g)]), Null}
                 /\ state'[g].lastProcessed = 1
                 /\ state'[g].hasErrors \in {HasErrorsValue(analysis[g]), "false"}]_vars

\* two pipelines ran side by side, the second file of the listing finished
\* first, and both entries are in the state
C31_Witness ==
    /\ AfterBarrier
    /\ maxConcurrency = 2
    /\ Cardinality(Dispatched) = 2
    /\ Len(results) = 2
    /\ results[1].filename = FileName(2)
    /\ \A f \in Dispatched : f \in DOMAIN state

\* the directory part of a path: its parts up to the last separator
DirOf(p) ==
    LET seps == {i \in 1..Len(p) : p[i] = "/"}
    IN IF seps = {} THEN <<>>
       ELSE SubSeq(p, 1, CHOOSE i \in seps : \A j \in seps : j <= i)

\* C32: the backup path computed for an eligible file is not the path of an
\* eligible (.vtt) file of the same directory, and no other eligible file
\* has the same backup path.
C32_BackupPathsDisjoint ==
    pathOutput # <<>> =>
        /\ ~(IsVTT(pathOutput) /\ DirOf(pathOutput) = DirOf(pathInput))
        /\ \A q \in EligiblePaths :
               q # pathInput => backupPath(q) # pathOutput

\* the number of corrections the analysis of f proposed that were not
\* applied to the file: all of them unless applyCorrections succeeded, and
\* then those its loop did not apply
Unapplied(f) ==
    LET fixes == {i \in ResultsOf(f) : results[i].kind = "fix" /\ results[i].fixResult.success}
    IN IF fixes = {} THEN Len(analysis[f].corrections)
       ELSE Len(analysis[f].corrections)
              - results[CHOOSE i \in fixes : TRUE].fixResult.changesCount

\* C33: once the pipeline of an analysed file has ended, the hasErrors flag
\* of its state entry is true exactly when the analysis proposed a
\* correction that was not applied to the file (a flag that was never set
\* reads as false).
C33_HasErrorsIffUnapplied ==
    \A f \in Names :
        (pc[f] = "done" /\ analysis[f] # NoAnalysis /\ f \in DOMAIN state) =>
            (state[f].hasErrors = "true" <=> Unapplied(f) > 0)

\* the files whose backup and overwrite both completed in this run: the
\* backup holds the content that was read and the file holds the corrected
\* content
Overwritten ==
    {f \in Names : /\ pc[f] \in {"getFileHash2", "done"}
                   /\ fix[f].changesCount > 0
                   /\ disk[backupPath(FilePath(f))] = content[f]
                   /\ disk[FilePath(f)] = fix[f].modifiedContent}

\* the corrections applied to the files of S, summed
ChangesIn(S) ==
    LET sum[T \in SUBSET Names] ==
            IF T = {} THEN 0
            ELSE LET x == CHOOSE x \in T : TRUE
                 IN fix[x].changesCount + sum[T \ {x}]
    IN sum[S]

\* C34: in a report with a summary, the files counted as successfully
\* analyzed, as errors and as skipped add up to the total, which is the
\* number of results; the number of files corrected is the number of files
\* whose backup and overwrite completed in the run, each of them listed
\* once with at least one change, and the total of corrections is the sum
\* of their changes.
C34_ReportPartition ==
    report.summary =>
        /\ report.successCount + report.errorCount + report.skipped = report.total
        /\ report.total = Len(results)
        /\ report.filesCorrected = Cardinality(Overwritten)
        /\ \A i \in 1..Len(fixedFiles) :
               /\ fixedFiles[i].changesCount >= 1
               /\ fixedFiles[i].filename \in Overwritten
               /\ \A j \in 1..Len(fixedFiles) :
                      fixedFiles[j].filename = fixedFiles[i].filename => j = i
        /\ report.totalCorrections = ChangesIn(Overwritten)

\* a report of two results, one counted as success with its file corrected
\* and one counted as error
C34_Witness ==
    /\ report.summary
    /\ report.total = 2
    /\ report.successCount = 1 /\ report.errorCount = 1
    /\ report.filesCorrected = 1 /\ report.totalCorrections = 1

\* C35: a file whose analysis returned status error or skipped has, when
\* its pipeline ends, a state entry with the hash of its content; in a
\* second run without --force, started after the state was saved, the
\* decision for such a file is UNCHANGED, and the file is then left alone:
\* no pipeline, no analysis call.
C35_UnanalysedIsRemembered ==
    [][/\ \A f \in Names :
            (pc'[f] = "done" /\ analysis'[f].status \in {"error", "skipped"}) =>
                /\ f \in DOMAIN state'
                /\ state'[f].hash = md5(disk'[FilePath(f)])
       /\ (/\ run = 2 /\ mainpc = "decide" /\ toDecide # <<>>
           /\ Head(toDecide) \in prev.unanalysed
           /\ toDecide' = Tail(toDecide) /\ faults' = faults)
          => skippedFiles' =
               Append(skippedFiles, [filename |-> Head(toDecide),
                                     reason |-> "already processed and unchanged"])
       /\ (run = 2 /\ run' = 2) =>
             \A f \in prev.unanalysed : SkippedUnchanged(f) => (LeftAlone(f))']_vars

\* the step in which the read of f returns and no cue text is found in it
ReturnsEmpty(f) == pc[f] = "readFile" /\ pc'[f] = "done" /\ Emptied(f)'

\* the second run decides, without I/O error, a file the first run found
\* without cue text
DecidesEmptied ==
    /\ run = 2 /\ mainpc = "decide" /\ toDecide # <<>>
    /\ Head(toDecide) \in prev.noText
    /\ toDecide' = Tail(toDecide) /\ faults' = faults

Unset == <<"unset">>

\* the settings: unset, or a string of a sign, digits and a letter
Settings ==
    {Unset} \cup UNION {[1..k -> {"-", "0", "2", "a"}] : k \in 0..MaxSetting}

\* the default of the constructor: parseInt(...) || 3
DefaultConcurrency == 3

\* parseInt of a setting, radix 10: leading white space is skipped, a sign
\* is read, then the longest run of decimal digits; NaN when there is no
\* digit or the setting is unset
parseInt(s) ==
    LET t == TrimStart[s]
        signed == t # <<>> /\ t[1] \in {"-", "+"}
        body == IF signed THEN Tail(t) ELSE t
        n == CHOOSE k \in 0..Len(body) :
                 /\ \A i \in 1..k : body[i] \in Digits
                 /\ k = Len(body) \/ body[k + 1] \notin Digits
        digit(c) == (CHOOSE i \in 1..Len(DecimalDigits) : DecimalDigits[i] = c) - 1
        val[i \in 0..n] == IF i = 0 THEN 0 ELSE 10 * val[i - 1] + digit(body[i])
    IN IF s = Unset \/ n = 0 THEN [nan |-> TRUE, value |-> 0]
       ELSE [nan |-> FALSE, value |-> IF t[1] = "-" THEN 0 - val[n] ELSE val[n]]

\* this.maxConcurrency = parseInt(process.env.MAX_CONCURRENCY) || 3: NaN
\* and zero are falsy, every other number is kept
maxConcurrencyOf(s) ==
    LET p == parseInt(s)
    IN IF p.nan \/ p.value = 0 THEN DefaultConcurrency ELSE p.value

InitLimit ==
    /\ MainIdle
    /\ LoopIdle
    /\ CallIdle
    /\ DecideIdle
    /\ PathIdle
    /\ setting \in Settings
    /\ variant = "parallel"
    /\ maxConcurrency = maxConcurrencyOf(setting)
    /\ current = 0
    /\ waiting = <<>>

SpecLimit == InitLimit /\ [][NextSem]_vars

\* C37: whatever the MAX_CONCURRENCY setting, once a caller has called
\* acquire the limit is a positive integer, 3 when the setting is unset or
\* holds no number, a permit has been granted, and callers wait only while
\* another holds a permit.
C37_LimitIsPositive ==
    callOrder # <<>> =>
        /\ maxConcurrency >= 1
        /\ parseInt(setting).nan => maxConcurrency = DefaultConcurrency
        /\ grantOrder # <<>>
        /\ waiting # <<>> => current > 0

(***************************************************************************)
(* The correction loop of applyCorrections on the content of subtitle      *)
(* files: the loop works on the whole content that checkVTTFile read,      *)
(* header, cue identifiers and timing lines included.                      *)
(***************************************************************************)
\* a file whose cue text holds a numeral
NumberVTT == Header \o <<"1", "\n">> \o Timing \o <<"t", "e", "h", " ", "1", "\n">>

\* a correction of the numeral
Numeral == [original |-> <<"1">>, corrected |-> <<"o", "n", "e">>, type |-> "spelling"]

InitVTT ==
    /\ MainIdle
    /\ CallIdle
    /\ DecideIdle
    /\ PathIdle
    /\ maxConcurrency = 1 /\ current = 0 /\ waiting = <<>>
    /\ loopInput \in [content : {TextVTT, EmptyVTT, NumberVTT},
                      corrections : UNION {[1..k -> {Fix, Missing, Numeral}] :
                                             k \in 0..MaxCorrections}]
    /\ loopAcc = ApplyAll(loopInput.content, <<>>)
    /\ loopRest = loopInput.corrections
    /\ loopResult = NoFixResult
    /\ loopPc = "loop"
    /\ SideIdle

SpecVTT == InitVTT /\ [][NextLoop]_vars

\* the lines extractTextFromVTT takes for the header, a timing line or a
\* cue identifier, and those lines of a content, in order
IsStructureLine(line) ==
    LET trimmedLine == Trim(line)
    IN \/ trimmedLine = WEBVTT
       \/ IsTimestampLine(trimmedLine)
       \/ IsCueIdentifier(trimmedLine)

StructureFrom[lines \in Seq(Str)] ==
    IF lines = <<>> THEN <<>>
    ELSE (IF IsStructureLine(Head(lines)) THEN <<Head(lines)>> ELSE <<>>)
         \o StructureFrom[Tail(lines)]

StructureOf(vttContent) == StructureFrom[Split[vttContent]]

\* C38: when applyCorrections' loop has returned, the header line, the cue
\* identifier lines and the timing lines of the corrected content are those
\* of the content it was given.
C38_StructureKept ==
    loopPc = "returned" =>
        StructureOf(loopAcc.modifiedContent) = StructureOf(loopInput.content)

(***************************************************************************)
(* The two checkers without parallel processing (the OpenRouter checker    *)
(* and the local checker): no state file, no corrections, and a loop that  *)
(* awaits checkVTTFile for one file after the other.                       *)
(***************************************************************************)
\* analyzeWithOpenRouter of the OpenRouter checker, which returns skipped
\* when no API key is set, and analyzeWithLocalDeepSeek of the local one;
\* ok says whether the request succeeds: the result holds the text of the
\* response, or reports the failure of the request
analyzeText(v, key, ok) ==
    IF v = "openrouter" /\ ~key THEN Skipped
    ELSE IF ok THEN [status |-> "success", text |-> "raw", hasCorrections |-> FALSE,
                     corrections |-> <<>>]
    ELSE [status |-> "error", text |-> "none", hasCorrections |-> FALSE,
          corrections |-> <<>>]

\* the variables the two checkers do not have
seqUnused == <<maxConcurrency, forceReprocess, stateFile, state, filesToProcess,
               skippedFiles, current, waiting, response, fix, fixedFiles, saves,
               saveFailed, released>>

InitSeq ==
    /\ LoopIdle
    /\ CallIdle
    /\ DecideIdle
    /\ PathIdle
    /\ variant \in {"openrouter", "local"}
    /\ mainpc = (IF variant = "local" THEN "connect" ELSE "pathExists")
    /\ apiKey \in (IF variant = "local" THEN {FALSE} ELSE BOOLEAN)
    /\ maxConcurrency = 1
    /\ setting = SettingOf(maxConcurrency)
    /\ forceReprocess = FALSE
    /\ dirExists \in BOOLEAN
    /\ \E n \in 0..MaxFiles :
         /\ dirList = (IF dirExists THEN Listing(n) ELSE <<>>)
         /\ \E cs \in [1..n -> FileContents] :
              disk = [p \in Paths |->
                        IF ~dirExists THEN NoFile
                        ELSE IF \E i \in 1..n : p = FilePath(FileName(i))
                             THEN cs[CHOOSE i \in 1..n : p = FilePath(FileName(i))]
                        ELSE IF p = FilePath(OtherFile) THEN <<"a">>
                        ELSE NoFile]
    /\ stateFile = NoStateFile
    /\ state = <<>>
    /\ toDecide = <<>>
    /\ filesToProcess = <<>>
    /\ skippedFiles = <<>>
    /\ current = 0
    /\ waiting = <<>>
    /\ pc = [n \in Names |-> "idle"]
    /\ content = [n \in Names |-> <<>>]
    /\ analysis = [n \in Names |-> NoAnalysis]
    /\ response = [n \in Names |-> NoResponse]
    /\ fix = [n \in Names |-> ApplyAll(<<>>, <<>>)]
    /\ results = <<>>
    /\ fixedFiles = <<>>
    /\ faults = 0
    /\ saves = 0
    /\ saveFailed = FALSE
    /\ released = [n \in Names |-> 0]
    /\ run = 1
    /\ prev = NoPrev
    /\ stateFile0 = stateFile
    /\ report = NoReport
    /\ exitCode = Null

\* init of the local checker: checkOllamaConnection catches its own errors;
\* when the service does not answer init returns and the process exits
\* with code 0
SeqConnect ==
    /\ mainpc = "connect"
    /\ \E isOllamaRunning \in BOOLEAN :
         IF isOllamaRunning THEN mainpc' = "pathExists" /\ UNCHANGED exitCode
         ELSE mainpc' = "done" /\ exitCode' = 0
    /\ UNCHANGED aside
    /\ UNCHANGED seqUnused
    /\ UNCHANGED <<apiKey, dirExists, dirList, disk, toDecide, pc, content, analysis,
                   results, faults, report>>

\* init: a missing directory is created and init returns; when ensureDir
\* fails init rejects and the catch of main() exits with code 1
SeqCheckDir ==
    /\ mainpc = "pathExists"
    /\ \/ /\ dirExists
          /\ mainpc' = "readdir"
          /\ UNCHANGED <<dirExists, faults, exitCode>>
       \/ /\ ~dirExists
          /\ mainpc' = "done"
          /\ dirExists' = TRUE
          /\ exitCode' = 0
          /\ UNCHANGED faults
       \/ /\ ~dirExists
          /\ MayFault
          /\ faults' = faults + 1
          /\ mainpc' = "done"
          /\ exitCode' = 1
          /\ UNCHANGED dirExists
    /\ UNCHANGED aside
    /\ UNCHANGED seqUnused
    /\ UNCHANGED <<apiKey, dirList, disk, toDecide, pc, content, analysis, results, report>>

\* processVTTFiles up to its loop: a failing readdir is caught, and without
\* .vtt file processVTTFiles returns; init goes on to generateReport
SeqReadDir ==
    /\ mainpc = "readdir"
    /\ \E fault \in {FALSE} \cup {b \in {TRUE} : MayFault} :
         /\ faults' = faults + (IF fault THEN 1 ELSE 0)
         /\ IF fault \/ vttFilesOf(dirList) = <<>>
            THEN mainpc' = "report" /\ UNCHANGED toDecide
            ELSE mainpc' = "loop" /\ toDecide' = vttFilesOf(dirList)
    /\ UNCHANGED aside
    /\ UNCHANGED seqUnused
    /\ UNCHANGED <<apiKey, dirExists, dirList, disk, pc, content, analysis, results,
                   report, exitCode>>

\* a loop that calls checkVTTFile without awaiting it
SeqNext_NoAwait ==
    /\ mainpc \in {"loop", "checking"}
    /\ IF toDecide = <<>>
       THEN /\ mainpc = "loop"
            /\ mainpc' = "report"
            /\ UNCHANGED <<toDecide, pc>>
       ELSE /\ mainpc' = "checking"
            /\ pc' = [pc EXCEPT ![Head(toDecide)] = "readFile"]
            /\ toDecide' = Tail(toDecide)
    /\ UNCHANGED aside
    /\ UNCHANGED seqUnused
    /\ UNCHANGED <<apiKey, dirExists, dirList, disk, content, analysis, results, faults,
                   report, exitCode>>

\* for (const file of vttFiles) { await this.checkVTTFile(file); }: the
\* loop is reached again only when the call it awaits has returned; it
\* calls checkVTTFile for the next file, or ends
SeqNext ==
    /\ mainpc = "loop"
    /\ IF toDecide = <<>>
       THEN /\ mainpc' = "report"
            /\ UNCHANGED <<toDecide, pc>>
       ELSE /\ mainpc' = "checking"
            /\ pc' = [pc EXCEPT ![Head(toDecide)] = "readFile"]
            /\ toDecide' = Tail(toDecide)
    /\ UNCHANGED aside
    /\ UNCHANGED seqUnused
    /\ UNCHANGED <<apiKey, dirExists, dirList, disk, content, analysis, results, faults,
                   report, exitCode>>

\* checkVTTFile, readFile returns: a failed read is caught and becomes an
\* error result; a file without cue text ends the call with no result;
\* otherwise the analysis function is called (the local checker gives it
\* at most the first 2000 characters of the text)
SeqReadDone(f) ==
    /\ pc[f] = "readFile"
    /\ \E fault \in {FALSE} \cup {b \in {TRUE} : MayFault} :
         /\ faults' = faults + (IF fault THEN 1 ELSE 0)
         /\ IF fault \/ disk[FilePath(f)] = NoFile
            THEN /\ results' = Append(results, ErrorResult(f))
                 /\ pc' = [pc EXCEPT ![f] = "done"]
                 /\ mainpc' = "loop"
                 /\ UNCHANGED content
            ELSE /\ content' = [content EXCEPT ![f] = disk[FilePath(f)]]
                 /\ UNCHANGED results
                 /\ IF Trim(extractTextFromVTT(disk[FilePath(f)])) = <<>>
                    THEN /\ pc' = [pc EXCEPT ![f] = "done"]
                         /\ mainpc' = "loop"
                    ELSE /\ pc' = [pc EXCEPT ![f] = "analyze"]
                         /\ UNCHANGED mainpc
    /\ UNCHANGED aside
    /\ UNCHANGED seqUnused
    /\ UNCHANGED <<apiKey, dirExists, dirList, disk, toDecide, analysis, report, exitCode>>

\* checkVTTFile, the analysis function returns (it catches the failure of
\* its request): the result is recorded and checkVTTFile returns
SeqAnalyzeDone(f) ==
    /\ pc[f] = "analyze"
    /\ \E ok \in BOOLEAN :
         LET a == analyzeText(variant, apiKey, ok)
         IN /\ analysis' = [analysis EXCEPT ![f] = a]
            /\ results' = Append(results, AnalysisResult(f, a))
    /\ pc' = [pc EXCEPT ![f] = "done"]
    /\ mainpc' = "loop"
    /\ UNCHANGED aside
    /\ UNCHANGED seqUnused
    /\ UNCHANGED <<apiKey, dirExists, dirList, disk, toDecide, content, faults, report,
                   exitCode>>

\* generateReport; init returns and the process exits with code 0
SeqReport ==
    /\ mainpc = "report"
    /\ mainpc' = "done"
    /\ report' = generateReport(results, <<>>)
    /\ exitCode' = 0
    /\ UNCHANGED aside
    /\ UNCHANGED seqUnused
    /\ UNCHANGED <<apiKey, dirExists, dirList, disk, toDecide, pc, content, analysis,
                   results, faults>>

NextSeq ==
    \/ SeqConnect
    \/ SeqCheckDir
    \/ SeqReadDir
    \/ SeqNext
    \/ \E f \in Names : SeqReadDone(f)
    \/ \E f \in Names : SeqAnalyzeDone(f)
    \/ SeqReport

SpecSeq == InitSeq /\ [][NextSeq]_vars

\* the files for which checkVTTFile is running
Checking == {f \in Names : pc[f] \in {"readFile", "analyze"}}

\* f is the k-th .vtt file of the listing, every file before it has ended
\* and no file after it has begun
NextInListing(f) ==
    LET vttFiles == vttFilesOf(dirList)
    IN \E k \in 1..Len(vttFiles) :
          /\ vttFiles[k] = f
          /\ \A i \in 1..(k - 1) : pc[vttFiles[i]] = "done"
          /\ \A i \in (k + 1)..Len(vttFiles) : pc[vttFiles[i]] = "idle"

\* the results hold an error for f
HasErrorResult(f) ==
    \E i \in 1..Len(results) :
        results[i].filename = f /\ Classify(results[i]) = "error"

\* C39: in the two sequential checkers at most one checkVTTFile, and so at
\* most one analysis call, is running at any time; a file is begun only
\* when it is the next of the listing and every file before it has ended;
\* no step changes a subtitle file, a backup or the state file; and once
\* the loop has begun and processVTTFiles has returned, every .vtt file of
\* the listing has ended, a file whose read or analysis failed has an
\* error result, and the results are in listing order.
C39_SequentialVariants ==
    [][/\ Cardinality(Checking') <= 1
       /\ \A f \in Names :
            (pc[f] = "idle" /\ pc'[f] # "idle") => Checking = {} /\ NextInListing(f)
       /\ disk' = disk /\ stateFile' = stateFile
       /\ \A f \in Names :
            (pc'[f] = "done" /\ (content'[f] = <<>> \/ analysis'[f].status = "error"))
                => HasErrorResult(f)'
       /\ (mainpc' \in {"report", "done"} /\ \E f \in Names : pc[f] # "idle") =>
            /\ \A i \in 1..Len(vttFilesOf(dirList)) : pc'[vttFilesOf(dirList)[i]] = "done"
            /\ IsSubsequence([i \in 1..Len(results') |-> results'[i].filename],
                             vttFilesOf(dirList))]_vars

\* a run of a sequential checker has ended: the read of the first file
\* failed and gave an error result, and the second file was then analysed
\* with success
C39_Witness ==
    /\ variant \in {"openrouter", "local"}
    /\ mainpc = "done"
    /\ Len(results) = 2
    /\ results[1] = ErrorResult(FileName(1))
    /\ results[2].filename = FileName(2)
    /\ results[2].kind = "analysis"
    /\ results[2].analysis.status = "success"
    /\ faults = 1

====
